---- MODULE Spec2Model ----
(***************************************************************************)
(* Force-directed "trait" simulation of Flower-City-Online/traitVisual.     *)
(*                                                                         *)
(* The model follows src/src/app/objects/Node.ts (the body and its update), *)
(* src/src/app/services/node-actions.ts (addNode / removeNode), the second   *)
(* AppComponent of src/src/app/app.component.ts (the handlers that drive    *)
(* the cluster) and the Cluster class of                                    *)
(* src/src/app/drag-sphere/drag-sphere.component.spec.ts.                   *)
(*                                                                         *)
(* Numbers.  Every coordinate, attribute and coefficient of the program is  *)
(* a JavaScript Number, i.e. a binary floating-point value whose arithmetic *)
(* rounds each result to the nearest representable value (ties to even).   *)
(* The model keeps that arithmetic and shortens only the significand: a    *)
(* value is [m |-> mantissa, e |-> exponent] and denotes m * 2^e, with m    *)
(* odd (or m = 0, e = 0) and |m| < 2^MantissaBits.  The exponent is not     *)
(* bounded, so nothing underflows or overflows in the model.                *)
(***************************************************************************)
EXTENDS Integers, Sequences, FiniteSets, TLC

\* Width of the significand of the model's floating-point numbers.
MantissaBits == 11

----------------------------------------------------------------------------
(* Floating-point arithmetic: round to nearest, ties to even.              *)

Pow2(k) == 2 ^ k

Abs(n) == IF n < 0 THEN -n ELSE n

Sgn(n) == IF n < 0 THEN -1 ELSE IF n > 0 THEN 1 ELSE 0

\* Number of binary digits of the natural number n (0 for n = 0), four bits
\* at a time.
BitLen4(n) == IF n < 4 THEN (IF n < 2 THEN n ELSE 2) ELSE (IF n < 8 THEN 3 ELSE 4)

RECURSIVE BitLen(_)
BitLen(n) == IF n < 16 THEN BitLen4(n) ELSE 4 + BitLen(n \div 16)

\* Number of trailing zero bits of n > 0.
RECURSIVE TrailingZeros(_)
TrailingZeros(n) == IF n % 2 = 1 THEN 0 ELSE 1 + TrailingZeros(n \div 2)

FZero == [m |-> 0, e |-> 0]

\* m * 2^e with the z trailing zero bits of m moved into the exponent.
CanonShift(m, e, z) == [m |-> m \div Pow2(z), e |-> e + z]

\* The canonical representation of m * 2^e, for |m| < 2^MantissaBits.
Canon(m, e) == IF m = 0 THEN FZero ELSE CanonShift(m, e, TrailingZeros(Abs(m)))

\* The quotient q of a significand cut at `half * 2`, moved to the nearest
\* value given the remainder r of the cut: up when r is above the half, and
\* to the even neighbour when r is the half.
NearestEven(q, r, half) == IF r > half \/ (r = half /\ q % 2 = 1) THEN q + 1 ELSE q

\* m * 2^e with the last s bits of m rounded away.
RoundShift(m, e, s) ==
    Canon(Sgn(m) * NearestEven(Abs(m) \div Pow2(s), Abs(m) % Pow2(s), Pow2(s - 1)), e + s)

\* m * 2^e rounded to MantissaBits significant bits, len being the length of m.
RoundLen(m, e, len) ==
    IF len <= MantissaBits THEN Canon(m, e) ELSE RoundShift(m, e, len - MantissaBits)

\* m * 2^e rounded to MantissaBits significant bits, ties to even.
Round(m, e) == RoundLen(m, e, BitLen(Abs(m)))

\* Position of the leading bit of a non-zero value: 2^(Top-1) <= |x| < 2^Top.
Top(x) == x.e + BitLen(Abs(x.m))

FNeg(x) == [m |-> -x.m, e |-> x.e]

\* The sum of x and y with both significands brought to the exponent e.
FAddAligned(x, y, e) == Round(x.m * Pow2(x.e - e) + y.m * Pow2(y.e - e), e)

\* The sum of two non-zero values whose leading bits are at tx and ty: a
\* value further than the rounding can see below the other one is absorbed.
FAddTop(x, y, tx, ty) ==
    IF tx - ty >= MantissaBits + 3 THEN x
    ELSE IF ty - tx >= MantissaBits + 3 THEN y
    ELSE FAddAligned(x, y, IF x.e < y.e THEN x.e ELSE y.e)

FAdd(x, y) ==
    IF x.m = 0 THEN y
    ELSE IF y.m = 0 THEN x
    ELSE FAddTop(x, y, Top(x), Top(y))

FSub(x, y) == FAdd(x, FNeg(y))

FMul(x, y) == Round(x.m * y.m, x.e + y.e)

\* sign * num / b * 2^(e + 1): the integer quotient with a sticky bit that
\* records a non-zero remainder, so that the rounding is the exact one.
FDivScaled(sign, num, b, e) ==
    Round(sign * (2 * (num \div b) + (IF num % b = 0 THEN 0 ELSE 1)), e)

\* x / y with the quotient taken to k more bits than the operands give.
FDivBy(x, y, k) ==
    FDivScaled(Sgn(x.m) * Sgn(y.m), Abs(x.m) * Pow2(k), Abs(y.m), x.e - y.e - k - 1)

\* x / y for y # 0: the quotient is taken to MantissaBits + 2 bits.
FDiv(x, y) ==
    IF x.m = 0 THEN FZero
    ELSE FDivBy(x, y, MantissaBits + 2 + BitLen(Abs(y.m)) - BitLen(Abs(x.m)))

\* Integer square root by bisection on lo..hi.
RECURSIVE ISqrtIn(_, _, _)
ISqrtIn(n, lo, hi) ==
    IF lo >= hi THEN lo
    ELSE IF ((lo + hi + 1) \div 2) * ((lo + hi + 1) \div 2) <= n
         THEN ISqrtIn(n, (lo + hi + 1) \div 2, hi)
         ELSE ISqrtIn(n, lo, ((lo + hi + 1) \div 2) - 1)

\* The root s of n with a sticky bit for an inexact root, times 2^e.
FSqrtRound(n, s, e) == Round(2 * s + (IF s * s = n THEN 0 ELSE 1), e)

\* sqrt(m * 2^(e - k)) for the integer n = m * 2^k, with e - k even.
FSqrtScaled(n, e) == FSqrtRound(n, ISqrtIn(n, 0, Pow2(MantissaBits + 3)), (e \div 2) - 1)

\* sqrt(x) with the significand of x widened by k bits.
FSqrtBy(x, k) == FSqrtScaled(x.m * Pow2(k), x.e - k)

\* The widening of x's significand that leaves 2 * MantissaBits + 4 bits, or
\* one more to make the exponent even.
FSqrtWiden(x, want) == IF (x.e - want) % 2 = 0 THEN want ELSE want + 1

\* sqrt(x) for x >= 0, correctly rounded.
FSqrt(x) ==
    IF x.m = 0 THEN FZero
    ELSE FSqrtBy(x, FSqrtWiden(x, 2 * MantissaBits + 4 - BitLen(x.m)))

\* Comparisons.  The rounded difference of two distinct values is never zero.
FLt(x, y) == FSub(x, y).m < 0

FGe(x, y) == ~FLt(x, y)

FGt(x, y) == FLt(y, x)

FAbs(x) == [m |-> Abs(x.m), e |-> x.e]

\* The Number nearest to the integer n.
Num(n) == Round(n, 0)

\* The Number nearest to n/d for integers n and d # 0: a decimal literal such
\* as 0.001 is Dec(1, 1000), and the quotient of two exactly held integers.
Dec(n, d) == FDiv([m |-> n, e |-> 0], [m |-> d, e |-> 0])

FOne == Num(1)

----------------------------------------------------------------------------
(* THREE.Vector3, as Node.ts uses it.  A vector is <<x, y, z>>.             *)

Vec(x, y, z) == <<x, y, z>>

VZero == Vec(FZero, FZero, FZero)

VAdd(a, b) == Vec(FAdd(a[1], b[1]), FAdd(a[2], b[2]), FAdd(a[3], b[3]))

\* subVectors(a, b)
VSub(a, b) == Vec(FSub(a[1], b[1]), FSub(a[2], b[2]), FSub(a[3], b[3]))

\* multiplyScalar(s)
VScale(a, s) == Vec(FMul(a[1], s), FMul(a[2], s), FMul(a[3], s))

\* length(): sqrt(x*x + y*y + z*z)
VLength(a) == FSqrt(FAdd(FAdd(FMul(a[1], a[1]), FMul(a[2], a[2])), FMul(a[3], a[3])))

\* a.distanceTo(b): sqrt(dx*dx + dy*dy + dz*dz)
VDistanceTo(a, b) == VLength(VSub(a, b))

\* What 0 * (1 / 0) gives: not a number.
NotANumber == [m |-> 0, e |-> 1]

\* normalize() as divideScalar(length()): the zero vector has no direction,
\* and every component becomes 0 * Infinity.
VNormalizeUnguarded(a) ==
    LET len == VLength(a)
    IN  IF len.m = 0 THEN <<NotANumber, NotANumber, NotANumber>>
        ELSE VScale(a, FDiv(FOne, len))

\* normalize(): divideScalar(length() || 1), and divideScalar(s) is
\* multiplyScalar(1 / s); the zero vector stays the zero vector.
VNormalize(a) ==
    LET len == VLength(a)
        d == IF len.m = 0 THEN FOne ELSE len
    IN  VScale(a, FDiv(FOne, d))

\* setLength(l): normalize().multiplyScalar(l)
VSetLength(a, l) == VScale(VNormalize(a), l)

\* lerp without the subtraction: a.x += v.x * alpha.
VLerpNoDifference(a, v, alpha) ==
    Vec(FAdd(a[1], FMul(v[1], alpha)),
        FAdd(a[2], FMul(v[2], alpha)),
        FAdd(a[3], FMul(v[3], alpha)))

\* a.lerp(v, alpha): a.x += (v.x - a.x) * alpha, and likewise y and z.
VLerp(a, v, alpha) ==
    Vec(FAdd(a[1], FMul(FSub(v[1], a[1]), alpha)),
        FAdd(a[2], FMul(FSub(v[2], a[2]), alpha)),
        FAdd(a[3], FMul(FSub(v[3], a[3]), alpha)))

----------------------------------------------------------------------------
(* ISimulationConfigs, with the values the Cluster constructor sets.       *)

SunAttraction == Num(1)

SunRepulsion == Num(1)

PlanetRepulsion == Num(1)

PlanetRepulsionThreshold == Dec(4, 10)

MaxVelocity == Dec(2, 100)

VelocityDamping == Dec(8, 10)

\* The literals of Node.ts: 0.001 (the constant added to the sun attraction
\* and the peer repulsion, and both literals of the peer attraction), 2, 3.
SmallConstant == Dec(1, 1000)

FTwo == Num(2)

FThree == Num(3)

\* Duration of the swap animation, in milliseconds.
SwapDuration == 5000

----------------------------------------------------------------------------
(* The Node class.  A node is a record: isSun, position, velocity,          *)
(* attributes, preferences and swap.  swap is NoSwap (null) or a record     *)
(* [start, end, startTime, duration].                                       *)

NoSwap == [null |-> TRUE]

IsSwapping(n) == n.swap # NoSwap

\* new Node(data, options): position from data.initialPosition, velocity zero,
\* isSun from data.isSun, attributes and preferences copied, swap null.
NewNode(data) ==
    [isSun |-> data.isSun,
     position |-> data.initialPosition,
     velocity |-> VZero,
     attributes |-> data.attributes,
     preferences |-> data.preferences,
     swap |-> NoSwap]

\* setSun(state, preference): only isSun is simulation state.
SetSun(n, state) == [n EXCEPT !.isSun = state]

\* diffSum of the two compatibility loops: the sum over i of |a[i] - b[i]|,
\* accumulated from index 1 to len.
RECURSIVE DiffSum(_, _, _)
DiffSum(a, b, len) ==
    IF len = 0 THEN FZero
    ELSE FAdd(DiffSum(a, b, len - 1), FAbs(FSub(a[len], b[len])))

\* calculatePreferredCompatibility with maxDiff = 100, not length * 100.
PreferredCompatibilityPerAttribute(planet, sun) ==
    LET diffSum == DiffSum(sun.preferences, planet.attributes, Len(sun.preferences))
        maxDiff == Num(100)
    IN  FSub(FOne, FDiv(diffSum, maxDiff))

\* planet.calculatePreferredCompatibility(sun)
CalculatePreferredCompatibility(planet, sun) ==
    LET diffSum == DiffSum(sun.preferences, planet.attributes, Len(sun.preferences))
        maxDiff == Num(Len(sun.preferences) * 100)
    IN  FSub(FOne, FDiv(diffSum, maxDiff))

\* calculateAttributeCompatibility measuring this node's attributes against
\* the other node's preferences, as calculatePreferredCompatibility does.
AttributeCompatibilityByPreference(self, other) ==
    LET diffSum == DiffSum(self.attributes, other.preferences, Len(self.attributes))
        maxDiff == Num(Len(self.attributes) * 100)
    IN  FSub(FOne, FDiv(diffSum, maxDiff))

\* self.calculateAttributeCompatibility(other)
CalculateAttributeCompatibility(self, other) ==
    LET diffSum == DiffSum(self.attributes, other.attributes, Len(self.attributes))
        maxDiff == Num(Len(self.attributes) * 100)
    IN  FSub(FOne, FDiv(diffSum, maxDiff))

\* calculateSunForce with `<=` in place of `<`: a planet exactly at its
\* desired distance takes the 'too close' branch.
CalculateSunForceCloseOrEqual(planet, sun) ==
    LET compatibility == CalculatePreferredCompatibility(planet, sun)
        desiredDistance == FAdd(FOne, FMul(FSub(FOne, compatibility), FThree))
        currentDistance == VDistanceTo(sun.position, planet.position)
        error == FSub(currentDistance, desiredDistance)
        directionToSun == VNormalize(VSub(sun.position, planet.position))
    IN  IF ~FGt(currentDistance, desiredDistance)
        THEN LET repulsionForce ==
                     FMul(FMul(FNeg(SunRepulsion), FSub(desiredDistance, currentDistance)),
                          compatibility)
             IN  VAdd(VZero, VScale(directionToSun, repulsionForce))
        ELSE LET attractionForce ==
                     FAdd(FMul(FMul(FMul(FTwo, SunAttraction), error), compatibility),
                          SmallConstant)
             IN  VAdd(VZero, VScale(directionToSun, attractionForce))

\* calculateSunForce with desiredDistance = 2 + (1 - compatibility) * 3: the
\* most compatible planets are held at distance 2.
CalculateSunForceDesiredTwo(planet, sun) ==
    LET compatibility == CalculatePreferredCompatibility(planet, sun)
        desiredDistance == FAdd(FTwo, FMul(FSub(FOne, compatibility), FThree))
        currentDistance == VDistanceTo(sun.position, planet.position)
        error == FSub(currentDistance, desiredDistance)
        directionToSun == VNormalize(VSub(sun.position, planet.position))
    IN  IF FLt(currentDistance, desiredDistance)
        THEN LET repulsionForce ==
                     FMul(FMul(FNeg(SunRepulsion), FSub(desiredDistance, currentDistance)),
                          compatibility)
             IN  VAdd(VZero, VScale(directionToSun, repulsionForce))
        ELSE LET attractionForce ==
                     FAdd(FMul(FMul(FMul(FTwo, SunAttraction), error), compatibility),
                          SmallConstant)
             IN  VAdd(VZero, VScale(directionToSun, attractionForce))

\* planet.calculateSunForce(sun)
CalculateSunForce(planet, sun) ==
    LET compatibility == CalculatePreferredCompatibility(planet, sun)
        desiredDistance == FAdd(FOne, FMul(FSub(FOne, compatibility), FThree))
        currentDistance == VDistanceTo(sun.position, planet.position)
        error == FSub(currentDistance, desiredDistance)
        directionToSun == VNormalize(VSub(sun.position, planet.position))
    IN  IF FLt(currentDistance, desiredDistance)
        THEN LET repulsionForce ==
                     FMul(FMul(FNeg(SunRepulsion), FSub(desiredDistance, currentDistance)),
                          compatibility)
             IN  VAdd(VZero, VScale(directionToSun, repulsionForce))
        ELSE LET attractionForce ==
                     FAdd(FMul(FMul(FMul(FTwo, SunAttraction), error), compatibility),
                          SmallConstant)
             IN  VAdd(VZero, VScale(directionToSun, attractionForce))

\* The peer test if a node that is swapping were left out of the loops.
IsPeerAtRest(nd, i, j) == j # i /\ ~nd[j].isSun /\ ~IsSwapping(nd[j])

\* The peers a planet's two forEach loops visit: the live nodes, in list
\* order, other than the planet itself and not the sun.
IsPeer(nd, i, j) == j # i /\ ~nd[j].isSun

\* One iteration of the loop without the offset: a magnitude of
\* attractionConstant * compatibility, which pulls.
AttractionTermPulls(self, other) ==
    LET compatibility == CalculateAttributeCompatibility(self, other)
        forceMagnitude == FMul(SmallConstant, compatibility)
        attractionDirection == VNormalize(VSub(other.position, self.position))
    IN  VScale(attractionDirection, forceMagnitude)

\* forceMagnitude of the older calculatePlanetAttraction:
\* attractionConstant * compatibility - 0.0014
OlderForceMagnitude(compatibility) ==
    FSub(FMul(SmallConstant, compatibility), Dec(14, 10000))

\* One iteration of calculatePlanetAttraction's loop.
AttractionTerm(self, other) ==
    LET compatibility == CalculateAttributeCompatibility(self, other)
        forceMagnitude == FSub(FMul(SmallConstant, compatibility), SmallConstant)
        attractionDirection == VNormalize(VSub(other.position, self.position))
    IN  VScale(attractionDirection, forceMagnitude)

\* calculatePlanetAttraction(nodes), accumulated over ns[1..k].
RECURSIVE CalculatePlanetAttraction(_, _, _, _)
CalculatePlanetAttraction(nd, ns, i, k) ==
    IF k = 0 THEN VZero
    ELSE LET acc == CalculatePlanetAttraction(nd, ns, i, k - 1)
         IN  IF IsPeer(nd, i, ns[k])
             THEN VAdd(acc, AttractionTerm(nd[i], nd[ns[k]]))
             ELSE acc

\* One iteration of calculatePlanetRepulsion's loop if the test were <=: a
\* peer exactly at the threshold would push with the small constant.
RepulsionTermAtThreshold(self, other) ==
    LET distance == VDistanceTo(self.position, other.position)
    IN  IF ~FGt(distance, PlanetRepulsionThreshold)
        THEN LET compatibility == CalculateAttributeCompatibility(self, other)
                 repulsion ==
                     FAdd(FMul(FMul(PlanetRepulsion,
                                    FSub(PlanetRepulsionThreshold, distance)),
                               FSub(FOne, compatibility)),
                          SmallConstant)
                 repulsionDirection == VNormalize(VSub(self.position, other.position))
             IN  VScale(repulsionDirection, repulsion)
        ELSE VZero

\* One iteration of calculatePlanetRepulsion's loop.
RepulsionTerm(self, other) ==
    LET distance == VDistanceTo(self.position, other.position)
    IN  IF FLt(distance, PlanetRepulsionThreshold)
        THEN LET compatibility == CalculateAttributeCompatibility(self, other)
                 repulsion ==
                     FAdd(FMul(FMul(PlanetRepulsion,
                                    FSub(PlanetRepulsionThreshold, distance)),
                               FSub(FOne, compatibility)),
                          SmallConstant)
                 repulsionDirection == VNormalize(VSub(self.position, other.position))
             IN  VScale(repulsionDirection, repulsion)
        ELSE VZero

\* calculatePlanetRepulsion(nodes), accumulated over ns[1..k].
RECURSIVE CalculatePlanetRepulsion(_, _, _, _)
CalculatePlanetRepulsion(nd, ns, i, k) ==
    IF k = 0 THEN VZero
    ELSE LET acc == CalculatePlanetRepulsion(nd, ns, i, k - 1)
         IN  IF IsPeer(nd, i, ns[k])
             THEN VAdd(acc, RepulsionTerm(nd[i], nd[ns[k]]))
             ELSE acc

\* applyForces with the damping before the cap: the velocity is damped,
\* then rescaled to maxVelocity if still longer.
ApplyForcesDampsBeforeCap(n, force) ==
    LET v1 == VScale(VAdd(n.velocity, force), VelocityDamping)
        v2 == IF FGt(VLength(v1), MaxVelocity) THEN VSetLength(v1, MaxVelocity) ELSE v1
    IN  [n EXCEPT !.velocity = v2, !.position = VAdd(n.position, v2)]

\* applyForces without the cap on the velocity.
ApplyForcesWithoutCap(n, force) ==
    LET v1 == VAdd(n.velocity, force)
        v3 == VScale(v1, VelocityDamping)
    IN  [n EXCEPT !.velocity = v3, !.position = VAdd(n.position, v3)]

\* applyForces(force)
ApplyForces(n, force) ==
    LET v1 == VAdd(n.velocity, force)
        v2 == IF FGt(VLength(v1), MaxVelocity) THEN VSetLength(v1, MaxVelocity) ELSE v1
        v3 == VScale(v2, VelocityDamping)
    IN  [n EXCEPT !.velocity = v3, !.position = VAdd(n.position, v3)]

\* progress of handleSwapAnimation before the clamp.
SwapProgress(swap, currentTime) == Dec(currentTime - swap.startTime, swap.duration)

\* handleSwapAnimation() without `this.swap = null`: the swap stays set
\* after the node has arrived.
HandleSwapAnimationKeepsSwap(n, currentTime) ==
    LET currentSwap == n.swap
        raw == SwapProgress(currentSwap, currentTime)
        done == FGe(raw, FOne)
        progress == IF done THEN FOne ELSE raw
    IN  [n EXCEPT !.velocity = IF done THEN VZero ELSE @,
                  !.position = VLerp(currentSwap.start, currentSwap.end, progress)]

\* handleSwapAnimation() that sends the node back when it arrives: the swap
\* is replaced by the reverse one in place of being cleared.
HandleSwapAnimationBounces(n, currentTime) ==
    LET currentSwap == n.swap
        raw == SwapProgress(currentSwap, currentTime)
        done == FGe(raw, FOne)
        progress == IF done THEN FOne ELSE raw
    IN  [n EXCEPT !.velocity = IF done THEN VZero ELSE @,
                  !.swap = IF done THEN [start |-> currentSwap.end,
                                         end |-> currentSwap.start,
                                         startTime |-> currentTime,
                                         duration |-> currentSwap.duration]
                           ELSE @,
                  !.position = VLerp(currentSwap.start, currentSwap.end, progress)]

\* handleSwapAnimation(), with performance.now() = currentTime.
HandleSwapAnimation(n, currentTime) ==
    LET currentSwap == n.swap
        raw == SwapProgress(currentSwap, currentTime)
        done == FGe(raw, FOne)
        progress == IF done THEN FOne ELSE raw
    IN  [n EXCEPT !.velocity = IF done THEN VZero ELSE @,
                  !.swap = IF done THEN NoSwap ELSE @,
                  !.position = VLerp(currentSwap.start, currentSwap.end, progress)]

\* The first live node with isSun, or 0 when there is none (nodes.find).
FindSun(nd, ns) ==
    IF \E k \in 1..Len(ns) : nd[ns[k]].isSun
    THEN ns[CHOOSE k \in 1..Len(ns) :
                /\ nd[ns[k]].isSun
                /\ \A j \in 1..(k - 1) : ~nd[ns[j]].isSun]
    ELSE 0

\* update()'s sum of forces if the peer forces were summed only inside the
\* `if (sun)` block: without a sun the planet would feel nothing.
TotalForceNeedsSun(nd, ns, i) ==
    LET sun == FindSun(nd, ns)
        f0 == IF sun # 0 THEN VAdd(VZero, CalculateSunForce(nd[i], nd[sun])) ELSE VZero
        f1 == IF sun # 0 THEN VAdd(f0, CalculatePlanetRepulsion(nd, ns, i, Len(ns))) ELSE f0
        f2 == IF sun # 0 THEN VAdd(f1, CalculatePlanetAttraction(nd, ns, i, Len(ns))) ELSE f1
    IN  VScale(f2, VelocityDamping)

\* The sum of forces update() hands to applyForces.
TotalForce(nd, ns, i) ==
    LET sun == FindSun(nd, ns)
        f0 == IF sun # 0 THEN VAdd(VZero, CalculateSunForce(nd[i], nd[sun])) ELSE VZero
        f1 == VAdd(f0, CalculatePlanetRepulsion(nd, ns, i, Len(ns)))
        f2 == VAdd(f1, CalculatePlanetAttraction(nd, ns, i, Len(ns)))
    IN  VScale(f2, VelocityDamping)

\* update() without the early return of the sun: the sun integrates forces.
UpdateNodeMovesSun(nd, ns, i, currentTime) ==
    IF IsSwapping(nd[i]) THEN HandleSwapAnimation(nd[i], currentTime)
    ELSE ApplyForces(nd[i], TotalForce(nd, ns, i))

\* update() without the return after handleSwapAnimation(): a swapping node
\* that is not the sun goes on to integrate forces in the same frame.
UpdateNodeKeepsIntegrating(nd, ns, i, currentTime) ==
    IF IsSwapping(nd[i])
    THEN IF nd[i].isSun
         THEN HandleSwapAnimation(nd[i], currentTime)
         ELSE ApplyForces(HandleSwapAnimation(nd[i], currentTime),
                          TotalForce([nd EXCEPT ![i] = HandleSwapAnimation(nd[i], currentTime)],
                                     ns, i))
    ELSE IF nd[i].isSun THEN nd[i]
    ELSE ApplyForces(nd[i], TotalForce(nd, ns, i))

\* nodes[i].update(nodes): the node's new value.
UpdateNode(nd, ns, i, currentTime) ==
    IF IsSwapping(nd[i]) THEN HandleSwapAnimation(nd[i], currentTime)
    ELSE IF nd[i].isSun THEN nd[i]
    ELSE ApplyForces(nd[i], TotalForce(nd, ns, i))

\* Cluster.update() computed from a copy of the list taken when the frame
\* starts: every node sees the old state of all the others.
RECURSIVE ClusterUpdateFromSnapshot(_, _, _, _)
ClusterUpdateFromSnapshot(nd, ns, k, currentTime) ==
    IF k = 0 THEN nd
    ELSE [ClusterUpdateFromSnapshot(nd, ns, k - 1, currentTime) EXCEPT
              ![ns[k]] = UpdateNode(nd, ns, ns[k], currentTime)]

\* Cluster.update(): nodes.forEach(node => node.update(nodes)), in place, so
\* a node sees the new state of the nodes before it in the list.
RECURSIVE ClusterUpdate(_, _, _, _)
ClusterUpdate(nd, ns, k, currentTime) ==
    IF k = 0 THEN nd
    ELSE LET before == ClusterUpdate(nd, ns, k - 1, currentTime)
         IN  [before EXCEPT ![ns[k]] = UpdateNode(before, ns, ns[k], currentTime)]

----------------------------------------------------------------------------
(* Bounds of the model and the inputs the handlers draw from.              *)

\* Nodes ever created: the initial descriptors plus the nodes addNode makes.
MaxNodes == 3

\* Calls of the user-facing handlers (right click, menu, drag, edits, add) in
\* a session that may use all of them.
MaxOps == 3

\* Calls of the handlers in a session of selecting, dragging, removing and
\* handing the sun role over.
MaxHandoffOps == 5

\* Frames the render loop runs.
MaxTicks == 2

\* Milliseconds of performance.now() between two frames.
FrameTime == 3000

\* randomPositionFixed(distance): a random direction, Math.random() - 0.5 on
\* each axis, normalized and scaled to distance.
RandomPositionFixed(r, distance) == VScale(VNormalize(r), distance)

\* The directions randomPositionFixed draws for the initial descriptors.
RandomDirections == {Vec(Dec(3, 10), Dec(-1, 10), Dec(4, 10))}

Attrs(a, b, c) == <<Num(a), Num(b), Num(c)>>

\* The initial descriptors, cut to the first two: the sun 'James' at the
\* origin, preferring 100 in every attribute, and the planet 'John' at a
\* random place at distance 3.
nodeData(r) ==
    << [isSun |-> TRUE, initialPosition |-> VZero,
        attributes |-> Attrs(0, 0, 0), preferences |-> Attrs(100, 100, 100)],
       [isSun |-> FALSE, initialPosition |-> RandomPositionFixed(r, FThree),
        attributes |-> Attrs(0, 0, 0), preferences |-> Attrs(0, 0, 0)] >>

\* addNode's random descriptor: position (Math.random() - 0.5) * 10 per axis,
\* attributes and preferences Math.floor(Math.random() * 100).
RandomPositions == {Vec(Num(-2), Dec(3, 10), Num(1))}

RandomAttributes == {Attrs(99, 50, 25)}

\* Points a drag can put a node at.
DragPositions == {Vec(Num(3), FZero, Dec(-7, 10))}

\* The attribute an edit is about, and the values typed into its input: the
\* handlers take Number(input.value) as it is, so a value above 100 is one
\* of them.
EditIndexes == {1}

EditValues == {Num(100), Num(150)}

----------------------------------------------------------------------------
(* The component's state.                                                  *)

VARIABLES
    nodes,          \* cluster.nodes: the live nodes, a sequence of node ids
    node,           \* the Node objects ever created, by id
    hiddenNodes,    \* AppComponent.hiddenNodes
    selectedNode,   \* AppComponent.selectedNode, 0 for null
    draggingNode,   \* AppComponent.draggingNode, 0 for null
    newNodeCounter, \* AppComponent.newNodeCounter
    now,            \* performance.now(), in milliseconds
    ops,            \* handler calls so far
    last            \* the last step: [op, acted, done]

vars == <<nodes, node, hiddenNodes, selectedNode, draggingNode, newNodeCounter,
          now, ops, last>>

Live == {nodes[k] : k \in 1..Len(nodes)}

Hidden == {hiddenNodes[k] : k \in 1..Len(hiddenNodes)}

\* What the last step was: the handler, whether it got past its early
\* returns, and (for a frame) the swaps the frame completed, by node.
Did(op, acted) == [op |-> op, acted |-> acted, done |-> <<>>]

\* indexOf + splice(index, 1)
RemoveFrom(seq, x) == SelectSeq(seq, LAMBDA y : y # x)

\* ngOnInit: loadNodes() builds the cluster from the descriptors and makes
\* the flagged node, or else the first node, the sun.
LoadNodes(data) ==
    LET built == [i \in 1..Len(data) |-> NewNode(data[i])]
        order == [i \in 1..Len(data) |-> i]
        found == FindSun(built, order)
        initialCentral == IF found # 0 THEN found ELSE 1
    IN  [built EXCEPT ![initialCentral] = SetSun(@, TRUE)]

Init ==
    /\ \E r \in RandomDirections : node = LoadNodes(nodeData(r))
    /\ nodes = <<1, 2>>
    /\ hiddenNodes = <<>>
    /\ selectedNode = 0
    /\ draggingNode = 0
    /\ newNodeCounter = 1
    /\ now = 0
    /\ ops = 0
    /\ last = Did("init", TRUE)

\* A user-facing handler runs between two frames, within a budget of max calls.
UserOp(max) == ops < max /\ ops' = ops + 1 /\ UNCHANGED now

\* handleRightClick: the ray hits a child of the cluster, which is selected.
OnRightClick ==
    /\ \E i \in Live : selectedNode' = i
    /\ last' = Did("rightClick", TRUE)
    /\ UNCHANGED <<nodes, node, hiddenNodes, draggingNode, newNodeCounter>>

\* The two nodes of onSetAsSun, and its early returns.
NewCentral == selectedNode

OldCentral == FindSun(node, nodes)

\* onSetAsSun's guard without its newCentral === oldCentral test.
SetAsSunActsOnSun == NewCentral # 0 /\ OldCentral # 0

SetAsSunActs == NewCentral # 0 /\ OldCentral # 0 /\ NewCentral # OldCentral

\* onSetAsSun without oldCentral.setSun(false): the old sun keeps the role.
SetAsSunKeepsOldSun ==
    LET newPosition == node[NewCentral].position
        oldPosition == node[OldCentral].position
    IN  [node EXCEPT
            ![NewCentral] = [@ EXCEPT !.swap = [start |-> newPosition, end |-> VZero,
                                                startTime |-> now,
                                                duration |-> SwapDuration],
                                      !.isSun = TRUE],
            ![OldCentral] = [@ EXCEPT !.swap = [start |-> oldPosition, end |-> newPosition,
                                                startTime |-> now,
                                                duration |-> SwapDuration]]]

\* onSetAsSun that puts the two nodes at their end points at once.
SetAsSunJumps ==
    LET newPosition == node[NewCentral].position
        oldPosition == node[OldCentral].position
    IN  [node EXCEPT
            ![NewCentral] = [@ EXCEPT !.swap = [start |-> newPosition, end |-> VZero,
                                                startTime |-> now,
                                                duration |-> SwapDuration],
                                      !.position = VZero,
                                      !.isSun = TRUE],
            ![OldCentral] = [@ EXCEPT !.swap = [start |-> oldPosition, end |-> newPosition,
                                                startTime |-> now,
                                                duration |-> SwapDuration],
                                      !.position = newPosition,
                                      !.isSun = FALSE]]

\* onSetAsSun that sends the new sun to the old sun's place, not the origin.
SetAsSunTradesPlaces ==
    LET newPosition == node[NewCentral].position
        oldPosition == node[OldCentral].position
    IN  [node EXCEPT
            ![NewCentral] = [@ EXCEPT !.swap = [start |-> newPosition, end |-> oldPosition,
                                                startTime |-> now,
                                                duration |-> SwapDuration],
                                      !.isSun = TRUE],
            ![OldCentral] = [@ EXCEPT !.swap = [start |-> oldPosition, end |-> newPosition,
                                                startTime |-> now,
                                                duration |-> SwapDuration],
                                      !.isSun = FALSE]]

\* onSetAsSun that sends the old sun to the origin as well.
SetAsSunSendsBothToOrigin ==
    LET newPosition == node[NewCentral].position
        oldPosition == node[OldCentral].position
    IN  [node EXCEPT
            ![NewCentral] = [@ EXCEPT !.swap = [start |-> newPosition, end |-> VZero,
                                                startTime |-> now,
                                                duration |-> SwapDuration],
                                      !.isSun = TRUE],
            ![OldCentral] = [@ EXCEPT !.swap = [start |-> oldPosition, end |-> VZero,
                                                startTime |-> now,
                                                duration |-> SwapDuration],
                                      !.isSun = FALSE]]

\* onSetAsSun that leaves a swap under way alone: a node that is already
\* swapping keeps its swap and its progress.
SetAsSunKeepsSwapUnderWay ==
    LET newPosition == node[NewCentral].position
        oldPosition == node[OldCentral].position
    IN  [node EXCEPT
            ![NewCentral] = [@ EXCEPT !.swap = IF IsSwapping(node[NewCentral]) THEN @
                                                ELSE [start |-> newPosition, end |-> VZero,
                                                      startTime |-> now,
                                                      duration |-> SwapDuration],
                                      !.isSun = TRUE],
            ![OldCentral] = [@ EXCEPT !.swap = IF IsSwapping(node[OldCentral]) THEN @
                                                ELSE [start |-> oldPosition, end |-> newPosition,
                                                      startTime |-> now,
                                                      duration |-> SwapDuration],
                                      !.isSun = FALSE]]

\* The node map onSetAsSun leaves, when it acts.
SetAsSunResult ==
    LET newPosition == node[NewCentral].position
        oldPosition == node[OldCentral].position
    IN  [node EXCEPT
            ![NewCentral] = [@ EXCEPT !.swap = [start |-> newPosition, end |-> VZero,
                                                startTime |-> now,
                                                duration |-> SwapDuration],
                                      !.isSun = TRUE],
            ![OldCentral] = [@ EXCEPT !.swap = [start |-> oldPosition, end |-> newPosition,
                                                startTime |-> now,
                                                duration |-> SwapDuration],
                                      !.isSun = FALSE]]

OnSetAsSun ==
    /\ node' = IF SetAsSunActs THEN SetAsSunResult ELSE node
    /\ last' = Did("setAsSun", SetAsSunActs)
    /\ UNCHANGED <<nodes, hiddenNodes, selectedNode, draggingNode, newNodeCounter>>

\* addNode with unshift in place of push: the new node goes in front.
AddNodeInFront(position, attributes, preferences) ==
    LET newId == Cardinality(DOMAIN node) + 1
        newNodeData == [isSun |-> FALSE, initialPosition |-> position,
                        attributes |-> attributes, preferences |-> preferences]
    IN  /\ node' = [i \in DOMAIN node \cup {newId} |->
                        IF i = newId THEN NewNode(newNodeData) ELSE node[i]]
        /\ nodes' = <<newId>> \o nodes
        /\ newNodeCounter' = newNodeCounter + 1

\* addNode(cluster, newNodeCounter)
AddNode(position, attributes, preferences) ==
    LET newId == Cardinality(DOMAIN node) + 1
        newNodeData == [isSun |-> FALSE, initialPosition |-> position,
                        attributes |-> attributes, preferences |-> preferences]
    IN  /\ node' = [i \in DOMAIN node \cup {newId} |->
                        IF i = newId THEN NewNode(newNodeData) ELSE node[i]]
        /\ nodes' = Append(nodes, newId)
        /\ newNodeCounter' = newNodeCounter + 1

OnAddNode ==
    /\ Cardinality(DOMAIN node) < MaxNodes
    /\ \E p \in RandomPositions, a \in RandomAttributes, q \in RandomAttributes :
           AddNode(p, a, q)
    /\ last' = Did("addNode", TRUE)
    /\ UNCHANGED <<hiddenNodes, selectedNode, draggingNode>>

\* removeNode's guard without its isSun test.
RemoveNodeActsOnSun == selectedNode # 0

\* removeNode(cluster, selectedNode, hiddenNodes, contextMenuElement): its
\* early return, negated.
RemoveNodeActs == selectedNode # 0 /\ ~node[selectedNode].isSun

OnRemoveNode ==
    /\ IF RemoveNodeActs
       THEN /\ nodes' = RemoveFrom(nodes, selectedNode)
            /\ hiddenNodes' = Append(hiddenNodes, selectedNode)
       ELSE UNCHANGED <<nodes, hiddenNodes>>
    /\ last' = Did("removeNode", RemoveNodeActs)
    /\ UNCHANGED <<node, selectedNode, draggingNode, newNodeCounter>>

\* onDragStart: the ray hits a child of the cluster, which is dragged.
OnDragStart ==
    /\ \E i \in Live : draggingNode' = i
    /\ last' = Did("dragStart", TRUE)
    /\ UNCHANGED <<nodes, node, hiddenNodes, selectedNode, newNodeCounter>>

\* onDragMove: returns at once when nothing is dragged; otherwise the dragged
\* node is put where the ray meets the drag plane.
OnDragMove ==
    /\ draggingNode # 0
    /\ \E p \in DragPositions :
           node' = [node EXCEPT ![draggingNode].position = p]
    /\ last' = Did("dragMove", TRUE)
    /\ UNCHANGED <<nodes, hiddenNodes, selectedNode, draggingNode, newNodeCounter>>

\* onDragEnd: returns at once when nothing is dragged.
OnDragEnd ==
    /\ draggingNode # 0
    /\ draggingNode' = 0
    /\ last' = Did("dragEnd", TRUE)
    /\ UNCHANGED <<nodes, node, hiddenNodes, selectedNode, newNodeCounter>>

\* get currentCentral(): the first live sun, or null.
CurrentCentral == FindSun(node, nodes)

\* get editableNode(): selectedAttrNode is never set by this component, so
\* it is the first live node that is not the sun, or else the sun.
EditableNode ==
    IF \E k \in 1..Len(nodes) : ~node[nodes[k]].isSun
    THEN nodes[CHOOSE k \in 1..Len(nodes) :
                   /\ ~node[nodes[k]].isSun
                   /\ \A j \in 1..(k - 1) : node[nodes[j]].isSun]
    ELSE CurrentCentral

\* An edit that leaves the velocity alone.
NoImpulse == VZero

\* The impulse an edit adds to the velocity.
Impulse == Vec(Dec(2, 100), Dec(2, 100), Dec(2, 100))

OnAttributeChange ==
    /\ EditableNode # 0
    /\ \E index \in EditIndexes, newValue \in EditValues :
           node' = [node EXCEPT
                       ![EditableNode].attributes[index] = newValue,
                       ![EditableNode].velocity = VAdd(@, Impulse)]
    /\ last' = Did("attributeChange", TRUE)
    /\ UNCHANGED <<nodes, hiddenNodes, selectedNode, draggingNode, newNodeCounter>>

OnPreferenceChange ==
    /\ CurrentCentral # 0
    /\ \E index \in EditIndexes, newValue \in EditValues :
           node' = [node EXCEPT
                       ![CurrentCentral].preferences[index] = newValue,
                       ![CurrentCentral].velocity = VAdd(@, Impulse)]
    /\ last' = Did("preferenceChange", TRUE)
    /\ UNCHANGED <<nodes, hiddenNodes, selectedNode, draggingNode, newNodeCounter>>

\* One frame of animate(): cluster.update() at the current performance.now().
Animate ==
    /\ now' = now + FrameTime
    /\ node' = ClusterUpdate(node, nodes, Len(nodes), now')
    /\ last' = [op |-> "tick", acted |-> TRUE,
                done |-> [i \in {j \in Live : IsSwapping(node[j]) /\ ~IsSwapping(node'[j])}
                             |-> node[i].swap]]
    /\ UNCHANGED <<nodes, hiddenNodes, selectedNode, draggingNode, newNodeCounter, ops>>

\* The frames of a session, MaxTicks of them.
Tick == now < MaxTicks * FrameTime /\ Animate

\* A session with every handler of the component.
Next ==
    \/ UserOp(MaxOps) /\ OnRightClick
    \/ UserOp(MaxOps) /\ OnSetAsSun
    \/ UserOp(MaxOps) /\ OnAddNode
    \/ UserOp(MaxOps) /\ OnRemoveNode
    \/ UserOp(MaxOps) /\ OnDragStart
    \/ UserOp(MaxOps) /\ OnDragMove
    \/ UserOp(MaxOps) /\ OnDragEnd
    \/ UserOp(MaxOps) /\ OnAttributeChange
    \/ UserOp(MaxOps) /\ OnPreferenceChange
    \/ Tick

Spec == Init /\ [][Next]_vars

\* A session of selecting, dragging, removing and handing over, which the
\* smaller set of handlers lets run for more calls.
HandoffNext ==
    \/ UserOp(MaxHandoffOps) /\ OnRightClick
    \/ UserOp(MaxHandoffOps) /\ OnSetAsSun
    \/ UserOp(MaxHandoffOps) /\ OnRemoveNode
    \/ UserOp(MaxHandoffOps) /\ OnDragStart
    \/ UserOp(MaxHandoffOps) /\ OnDragMove
    \/ UserOp(MaxHandoffOps) /\ OnDragEnd
    \/ Tick

SpecHandoff == Init /\ [][HandoffNext]_vars

----------------------------------------------------------------------------
(* Clusters built from other descriptor lists.  The Cluster constructor     *)
(* takes the list as its input (INodeData[]: any position, any trait       *)
(* values), so the force model can be exercised at chosen distances.       *)

\* Calls of the handlers in a session on such a cluster.
MaxForcesOps == 3

\* The directions randomPositionFixed draws for a third descriptor.
PeerDirections == {Vec(Dec(3, 10), Dec(-2, 10), Dec(4, 10))}

\* Descriptor lists of one sun and two planets:
\*  - a planet exactly at its desired distance from the sun (compatibility
\*    1/2, desired distance 2.5, position (1.5, 2, 0)) and, a quarter of a
\*    unit beside it, a planet the sun prefers fully;
\*  - the first three descriptors of the data file, James, John and Alice,
\*    the planets at random places at distance 3.
ClusterData ==
    { << [isSun |-> TRUE, initialPosition |-> VZero,
          attributes |-> Attrs(0, 0, 0), preferences |-> Attrs(100, 100, 100)],
         [isSun |-> FALSE, initialPosition |-> Vec(Dec(15, 10), FTwo, FZero),
          attributes |-> Attrs(50, 50, 50), preferences |-> Attrs(0, 0, 0)],
         [isSun |-> FALSE, initialPosition |-> Vec(Dec(15, 10), FTwo, Dec(25, 100)),
          attributes |-> Attrs(100, 100, 100), preferences |-> Attrs(0, 0, 0)] >> }
    \cup
    { nodeData(r) \o << [isSun |-> FALSE, initialPosition |-> RandomPositionFixed(q, FThree),
                         attributes |-> Attrs(25, 25, 25), preferences |-> Attrs(0, 0, 0)] >> :
          r \in RandomDirections, q \in PeerDirections }

\* ngOnInit on one of these lists.
InitForces ==
    /\ \E data \in ClusterData : node = LoadNodes(data)
    /\ nodes = <<1, 2, 3>>
    /\ hiddenNodes = <<>>
    /\ selectedNode = 0
    /\ draggingNode = 0
    /\ newNodeCounter = 1
    /\ now = 0
    /\ ops = 0
    /\ last = Did("init", TRUE)

\* A session of selecting, removing and handing over on such a cluster.
ForcesNext ==
    \/ UserOp(MaxForcesOps) /\ OnRightClick
    \/ UserOp(MaxForcesOps) /\ OnSetAsSun
    \/ UserOp(MaxForcesOps) /\ OnRemoveNode
    \/ Tick

SpecForces == InitForces /\ [][ForcesNext]_vars

----------------------------------------------------------------------------
(* Clusters whose descriptors carry trait values from a grid, for the two   *)
(* compatibility functions.                                                *)

\* The distance between 100 and the Number just below it: the finest step a
\* trait value near 100 can take.
TraitStep == [m |-> 1, e |-> 7 - MantissaBits]

\* Trait values of a descriptor (attrOne, attrTwo, attrThree: number): the
\* ends and the middle of [0, 100], and the Numbers next to the ends.
TraitValues == {Num(0), TraitStep, Num(50), FSub(Num(100), TraitStep), Num(100)}

TraitVectors == {<<a, b, c>> : a \in TraitValues, b \in TraitValues, c \in TraitValues}

\* The preferences of the sun's descriptor.
SunPreferences == {Attrs(100, 100, 100), Attrs(0, 50, 100)}

\* One sun and two planets at random places at distance 3; the first
\* planet's attributes run over the grid.
TraitData(attributes, preferences, r, q) ==
    << [isSun |-> TRUE, initialPosition |-> VZero,
        attributes |-> Attrs(0, 0, 0), preferences |-> preferences],
       [isSun |-> FALSE, initialPosition |-> RandomPositionFixed(r, FThree),
        attributes |-> attributes, preferences |-> Attrs(0, 0, 0)],
       [isSun |-> FALSE, initialPosition |-> RandomPositionFixed(q, FThree),
        attributes |-> Attrs(25, 25, 25), preferences |-> Attrs(0, 0, 0)] >>

InitTraits ==
    /\ \E a \in TraitVectors, p \in SunPreferences, r \in RandomDirections, q \in PeerDirections :
           node = LoadNodes(TraitData(a, p, r, q))
    /\ nodes = <<1, 2, 3>>
    /\ hiddenNodes = <<>>
    /\ selectedNode = 0
    /\ draggingNode = 0
    /\ newNodeCounter = 1
    /\ now = 0
    /\ ops = 0
    /\ last = Did("init", TRUE)

\* The render loop alone: each frame applies the two compatibility functions
\* to every planet.
TraitsNext == Tick

SpecTraits == InitTraits /\ [][TraitsNext]_vars

----------------------------------------------------------------------------
(* A cluster left to itself: one sun and two planets whose attributes are   *)
(* the sun's preferences, and the render loop running for many frames.      *)

\* Frames the render loop runs on that cluster.
MaxSettleTicks == 200

\* James, who prefers 100 in every attribute, and two planets that have 100
\* in every attribute, at random places at distance 3.
SettleData(r, q) ==
    << [isSun |-> TRUE, initialPosition |-> VZero,
        attributes |-> Attrs(0, 0, 0), preferences |-> Attrs(100, 100, 100)],
       [isSun |-> FALSE, initialPosition |-> RandomPositionFixed(r, FThree),
        attributes |-> Attrs(100, 100, 100), preferences |-> Attrs(0, 0, 0)],
       [isSun |-> FALSE, initialPosition |-> RandomPositionFixed(q, FThree),
        attributes |-> Attrs(100, 100, 100), preferences |-> Attrs(0, 0, 0)] >>

\* The directions drawn for the second planet: one close to the first
\* planet's (the two meet within the peer repulsion threshold on their way
\* in), one far from it.
SettlePeerDirections == PeerDirections \cup {Vec(Dec(-2, 10), Dec(4, 10), Dec(1, 10))}

InitSettle ==
    /\ \E r \in RandomDirections, q \in SettlePeerDirections :
           node = LoadNodes(SettleData(r, q))
    /\ nodes = <<1, 2, 3>>
    /\ hiddenNodes = <<>>
    /\ selectedNode = 0
    /\ draggingNode = 0
    /\ newNodeCounter = 1
    /\ now = 0
    /\ ops = 0
    /\ last = Did("init", TRUE)

\* The frames of that run.
SettleTick == now < MaxSettleTicks * FrameTime /\ Animate

SettleNext == SettleTick

\* The scheduling of the loop: animate() ends by asking requestAnimationFrame
\* for the next frame, so while frames remain the clock moves on to one.
\* Every SettleTick step is such a step, and SettleNext allows no other.
FrameDue == now < MaxSettleTicks * FrameTime /\ now' = now + FrameTime

\* A frame that is due does run.
SpecSettle == InitSettle /\ [][SettleNext]_vars /\ WF_now(FrameDue)

----------------------------------------------------------------------------
(* A session around one handoff: an edit gives a node a velocity, the node  *)
(* is selected and made the sun, and it is dragged while its swap runs.     *)

\* Calls of the handlers in such a session.
MaxSwapOps == 5

SwapNext ==
    \/ UserOp(MaxSwapOps) /\ OnAttributeChange
    \/ UserOp(MaxSwapOps) /\ OnRightClick
    \/ UserOp(MaxSwapOps) /\ OnSetAsSun
    \/ UserOp(MaxSwapOps) /\ OnDragStart
    \/ UserOp(MaxSwapOps) /\ OnDragMove
    \/ Tick

SpecSwap == Init /\ [][SwapNext]_vars

----------------------------------------------------------------------------
(* Handoffs that follow one another on a cluster of three nodes.            *)

\* Calls of the handlers in such a session.
MaxRelayOps == 4

\* A session of selecting and handing over on a cluster of three.
RelayNext ==
    \/ UserOp(MaxRelayOps) /\ OnRightClick
    \/ UserOp(MaxRelayOps) /\ OnSetAsSun
    \/ Tick

SpecRelay == InitForces /\ [][RelayNext]_vars

----------------------------------------------------------------------------
(* Clusters with planets at chosen distances from one another.              *)

\* A descriptor list of one sun and three planets in the plane y = 2: the
\* second planet exactly at the repulsion threshold from the first, the
\* third a quarter of a unit from the second and further than the threshold
\* from the first.
ThresholdData ==
    << [isSun |-> TRUE, initialPosition |-> VZero,
        attributes |-> Attrs(0, 0, 0), preferences |-> Attrs(100, 100, 100)],
       [isSun |-> FALSE, initialPosition |-> Vec(FZero, FTwo, FZero),
        attributes |-> Attrs(50, 50, 50), preferences |-> Attrs(0, 0, 0)],
       [isSun |-> FALSE, initialPosition |-> Vec(PlanetRepulsionThreshold, FTwo, FZero),
        attributes |-> Attrs(100, 100, 100), preferences |-> Attrs(0, 0, 0)],
       [isSun |-> FALSE, initialPosition |-> Vec(PlanetRepulsionThreshold, FTwo, Dec(25, 100)),
        attributes |-> Attrs(0, 0, 0), preferences |-> Attrs(0, 0, 0)] >>

PeerData == ClusterData \cup {ThresholdData}

\* ngOnInit on one of these lists.
InitPeers ==
    /\ \E data \in PeerData :
          /\ node = LoadNodes(data)
          /\ nodes = [i \in 1..Len(data) |-> i]
    /\ hiddenNodes = <<>>
    /\ selectedNode = 0
    /\ draggingNode = 0
    /\ newNodeCounter = 1
    /\ now = 0
    /\ ops = 0
    /\ last = Did("init", TRUE)

SpecPeers == InitPeers /\ [][ForcesNext]_vars

----------------------------------------------------------------------------
(* The render loop kept running until every swap of a live node is over.    *)

\* Calls of the handlers, and the frames the loop runs at least, in such a
\* session.
MaxEndOps == 4

MaxEndTicks == 4

\* The loop reschedules itself for as long as it is followed: for MaxEndTicks
\* frames, and past them while a live node is swapping.
LoopRuns == now < MaxEndTicks * FrameTime \/ \E i \in Live : IsSwapping(node[i])

EndTick == LoopRuns /\ Animate

EndNext ==
    \/ UserOp(MaxEndOps) /\ OnRightClick
    \/ UserOp(MaxEndOps) /\ OnSetAsSun
    \/ UserOp(MaxEndOps) /\ OnRemoveNode
    \/ EndTick

\* requestAnimationFrame(loop): the next frame is due.
EndFrameDue == LoopRuns /\ now' = now + FrameTime

SpecEnd == Init /\ [][EndNext]_vars /\ WF_now(EndFrameDue)

----------------------------------------------------------------------------
(* Nodes dragged onto one another.                                          *)

\* Calls of the handlers in such a session.
MaxDragOps == 4

\* The lists the session starts from: James and John, or one sun and two
\* planets.
DragData == ClusterData \cup {nodeData(r) : r \in RandomDirections}

InitDrag ==
    /\ \E data \in DragData :
          /\ node = LoadNodes(data)
          /\ nodes = [i \in 1..Len(data) |-> i]
    /\ hiddenNodes = <<>>
    /\ selectedNode = 0
    /\ draggingNode = 0
    /\ newNodeCounter = 1
    /\ now = 0
    /\ ops = 0
    /\ last = Did("init", TRUE)

DragNext ==
    \/ UserOp(MaxDragOps) /\ OnDragStart
    \/ UserOp(MaxDragOps) /\ OnDragMove
    \/ Tick

SpecDrag == InitDrag /\ [][DragNext]_vars

----------------------------------------------------------------------------
(* Properties.  LiveSuns is the set of live nodes that hold the sun role.  *)

LiveSuns == {i \in Live : node[i].isSun}

\* C1: after any sequence of addNode, removeNode, setAsSun, attribute and
\* preference edits, drags and frames, at most one node of the live
\* collection has isSun = TRUE.
C1_AtMostOneLiveSun == Cardinality(LiveSuns) <= 1

\* A handoff has just gone through in a cluster that addNode has extended.
C1_Witness ==
    /\ last.op = "setAsSun"
    /\ last.acted
    /\ Len(nodes) = 3
    /\ Cardinality(LiveSuns) = 1

\* C2: no sequence of addNode, removeNode, setAsSun on the selected node and
\* frames leaves the live collection without a sun.  The code does not keep
\* this: see C2_SunlessCluster.
C2_LiveSunExists == LiveSuns # {}

\* The state C2 excludes, as the code reaches it: the selected node was
\* removed and then made the sun, which took the role off the live sun.
C2_SunlessCluster ==
    /\ last.op = "setAsSun"
    /\ last.acted
    /\ selectedNode \in Hidden
    /\ node[selectedNode].isSun
    /\ LiveSuns = {}

\* C3: removeNode called with the current sun selected is a silent no-op: the
\* live collection (members and order), the hidden archive and every node's
\* fields are unchanged, and the collection still holds exactly one sun.
C3_RemoveSunIsNoOp ==
    [][(OnRemoveNode /\ selectedNode \in Live /\ node[selectedNode].isSun)
          => /\ nodes' = nodes
             /\ hiddenNodes' = hiddenNodes
             /\ node' = node
             /\ Cardinality({i \in {nodes'[k] : k \in 1..Len(nodes')} : node'[i].isSun}) = 1]_vars

\* removeNode has just returned early on the live sun.
C3_Witness ==
    /\ last.op = "removeNode"
    /\ ~last.acted
    /\ selectedNode \in Live
    /\ node[selectedNode].isSun

\* C4: addNode makes the live collection one longer, with the new node at
\* its end; the new node is not a sun, has zero velocity and no swap; every
\* node there was before is unchanged, and so is the hidden archive.
C4_AddNodeAppendsPlanet ==
    [][OnAddNode
          => /\ Len(nodes') = Len(nodes) + 1
             /\ SubSeq(nodes', 1, Len(nodes)) = nodes
             /\ nodes'[Len(nodes')] \notin DOMAIN node
             /\ ~node'[nodes'[Len(nodes')]].isSun
             /\ node'[nodes'[Len(nodes')]].velocity = VZero
             /\ node'[nodes'[Len(nodes')]].swap = NoSwap
             /\ \A i \in DOMAIN node : node'[i] = node[i]
             /\ hiddenNodes' = hiddenNodes]_vars

\* addNode has just run in a cluster whose earlier nodes are not at rest: a
\* frame has moved the planet before.
C4_Witness ==
    /\ last.op = "addNode"
    /\ Len(nodes) = 3
    /\ ~node[nodes[3]].isSun
    /\ \E i \in Live : node[i].velocity # VZero

\* C5: onSetAsSun with a selected node other than the current sun flips the
\* roles at once, before any frame: on return the old sun has isSun = FALSE
\* and the new one isSun = TRUE, both are still where they were before the
\* call, and both have their swap set.
C5_SetAsSunFlipsAtOnce ==
    [][(OnSetAsSun /\ selectedNode # 0 /\ LiveSuns # {} /\ selectedNode \notin LiveSuns)
          => /\ \A old \in LiveSuns : ~node'[old].isSun /\ IsSwapping(node'[old])
                                      /\ node'[old].position = node[old].position
             /\ node'[selectedNode].isSun
             /\ IsSwapping(node'[selectedNode])
             /\ node'[selectedNode].position = node[selectedNode].position]_vars

\* onSetAsSun has just handed the role over, no frame has run since, and the
\* two nodes are still apart.
C5_Witness ==
    /\ last.op = "setAsSun"
    /\ last.acted
    /\ selectedNode \in LiveSuns
    /\ \E old \in Live :
          /\ ~node[old].isSun
          /\ IsSwapping(node[old])
          /\ node[old].swap.startTime = now
          /\ node[old].position = node[old].swap.start
          /\ node[old].position # node[selectedNode].position

\* C6: onSetAsSun changes no node's isSun, swap, position or velocity when
\* no node is selected, when the live collection has no sun, or when the
\* selected node is the sun already.
C6_SetAsSunNoOp ==
    [][(OnSetAsSun /\ (selectedNode = 0 \/ LiveSuns = {} \/ selectedNode \in LiveSuns))
          => \A i \in DOMAIN node :
                /\ node'[i].isSun = node[i].isSun
                /\ node'[i].swap = node[i].swap
                /\ node'[i].position = node[i].position
                /\ node'[i].velocity = node[i].velocity]_vars

\* onSetAsSun has just returned early with a node selected in a cluster
\* that has no sun.
C6_Witness ==
    /\ last.op = "setAsSun"
    /\ ~last.acted
    /\ selectedNode # 0
    /\ LiveSuns = {}

\* The swap of live node i is due to complete in a frame at time t.
SwapIsDue(i, t) ==
    IsSwapping(node[i]) /\ t >= node[i].swap.startTime + node[i].swap.duration

\* The swap of live node i is under way in a frame at time t.
SwapUnderWay(i, t) ==
    /\ IsSwapping(node[i])
    /\ t >= node[i].swap.startTime
    /\ t < node[i].swap.startTime + node[i].swap.duration

\* start + (end - start) * p on one axis, in the program's arithmetic.
Interpolated(start, end, p) == FAdd(start, FMul(FSub(end, start), p))

\* C7: an update of a swapping node at a time now >= startTime + duration
\* puts the node exactly at swap.end, zeroes its velocity and clears its
\* swap, whatever its velocity and position were.  The code does not keep
\* the first part: see C7_InexactCompletion.
C7_CompletionSnapsToEnd ==
    [][Tick => \A i \in Live :
                  SwapIsDue(i, now')
                     => /\ node'[i].position = node[i].swap.end
                        /\ node'[i].velocity = VZero
                        /\ ~IsSwapping(node'[i])]_vars

\* A frame has just completed a swap and left the node off its end point.
C7_InexactCompletion ==
    /\ last.op = "tick"
    /\ \E i \in DOMAIN last.done :
          /\ ~IsSwapping(node[i])
          /\ node[i].velocity = VZero
          /\ node[i].position # last.done[i].end

\* C8: an update of a swapping node at progress p = (now - startTime) /
\* duration with 0 <= p < 1 puts the node at start + (end - start) * p and
\* keeps its swap; at p = 0 that is start; and the progress the
\* interpolation uses, p or 1 once p >= 1, is within [0, 1].
C8_SwapInterpolates ==
    [][Tick => \A i \in Live :
          /\ SwapUnderWay(i, now')
                => /\ \A k \in 1..3 :
                         node'[i].position[k] =
                             Interpolated(node[i].swap.start[k], node[i].swap.end[k],
                                          Dec(now' - node[i].swap.startTime,
                                              node[i].swap.duration))
                   /\ node'[i].swap = node[i].swap
                   /\ FGe(Dec(now' - node[i].swap.startTime, node[i].swap.duration), FZero)
                   /\ FLt(Dec(now' - node[i].swap.startTime, node[i].swap.duration), FOne)
          /\ IsSwapping(node[i])
                => /\ now' >= node[i].swap.startTime
                   /\ HandleSwapAnimation(node[i], node[i].swap.startTime).position
                          = node[i].swap.start
                   /\ HandleSwapAnimation(node[i], node[i].swap.startTime).swap
                          = node[i].swap]_vars

\* A frame has just left a swapping node part of the way between the two
\* ends of its swap.
C8_Witness ==
    /\ last.op = "tick"
    /\ \E i \in Live :
          /\ IsSwapping(node[i])
          /\ now > node[i].swap.startTime
          /\ node[i].position # node[i].swap.start
          /\ node[i].position # node[i].swap.end
          /\ node[i].swap.start # VZero
          /\ node[i].swap.end # VZero

\* The frame at time t completes the handoff from old to new in a cluster of
\* these two nodes: both swaps come from one onSetAsSun call.
HandoffCompletes(new, old, t) ==
    /\ Len(nodes) = 2
    /\ new # old
    /\ node[new].isSun
    /\ ~node[old].isSun
    /\ SwapIsDue(new, t)
    /\ SwapIsDue(old, t)
    /\ node[new].swap.startTime = node[old].swap.startTime
    /\ node[old].swap.end = node[new].swap.start

\* C9, as the specification states it: once the frames after a handoff in a
\* cluster of two nodes span the duration, the new sun is where the old sun
\* was before the handoff and the old sun is where the new sun was, wherever
\* the old sun was.
C9_PositionsSwap ==
    [][Tick => \A new, old \in Live :
                  HandoffCompletes(new, old, now')
                     => /\ node'[new].position = node[old].swap.start
                        /\ node'[old].position = node[new].swap.start]_vars

\* C9, as the code has it: the new sun ends at the origin, wherever the old
\* sun was; the old sun ends at start + (end - start) * 1 with end the new
\* sun's place before the handoff, which is that place when the old sun
\* started from the origin.
C9_NewSunGoesToOrigin ==
    [][Tick => \A new, old \in Live :
                  HandoffCompletes(new, old, now')
                     => /\ node'[new].position = VZero
                        /\ \A k \in 1..3 :
                              node'[old].position[k] =
                                  Interpolated(node[old].swap.start[k],
                                               node[new].swap.start[k], FOne)
                        /\ node[old].swap.start = VZero
                              => node'[old].position = node[new].swap.start]_vars

\* A frame has just completed a handoff whose old sun had been dragged away
\* from the origin: the new sun is at the origin all the same.
C9_Witness ==
    /\ last.op = "tick"
    /\ Len(nodes) = 2
    /\ DOMAIN last.done = Live
    /\ \E new, old \in Live :
          /\ node[new].isSun
          /\ ~node[old].isSun
          /\ last.done[old].start # VZero
          /\ last.done[old].end = last.done[new].start
          /\ node[new].position = VZero

\* C10: the update of a sun that is not swapping leaves its position and
\* its velocity as they were, whatever the other nodes are.
C10_SunIsFixed ==
    [][Tick => \A i \in Live :
                  (node[i].isSun /\ ~IsSwapping(node[i]))
                     => /\ node'[i].position = node[i].position
                        /\ node'[i].velocity = node[i].velocity]_vars

\* A frame has just run over a sun at rest in its role whose velocity a
\* preference edit had made non-zero, with a planet close by.
C10_Witness ==
    /\ last.op = "tick"
    /\ Len(nodes) >= 2
    /\ \E i \in LiveSuns :
          /\ ~IsSwapping(node[i])
          /\ i \notin DOMAIN last.done
          /\ node[i].velocity # VZero

----------------------------------------------------------------------------
(* The force model.                                                        *)

\* The node map the k-th node of the list sees at its turn in a frame: the
\* nodes before it already updated, itself and the nodes after it not yet.
SeenBy(k) == ClusterUpdate(node, nodes, k - 1, now')

\* The k-th live node integrates forces in this frame: no swap, not the sun.
IsMovingPlanet(k) == ~IsSwapping(node[nodes[k]]) /\ ~node[nodes[k]].isSun

\* velocity and position after applyForces(force), spelled out.
Integrated(n, force) ==
    LET summed == VAdd(n.velocity, force)
        capped == IF FGt(VLength(summed), MaxVelocity)
                  THEN VScale(VNormalize(summed), MaxVelocity)
                  ELSE summed
        damped == VScale(capped, VelocityDamping)
    IN  [velocity |-> damped, position |-> VAdd(n.position, damped)]

\* C11: when the live collection has no sun, a planet's update takes place
\* all the same: the force it integrates is the peer repulsion plus the peer
\* attraction, with nothing from a sun, times the damping, and velocity and
\* position are integrated from it.
C11_SunlessUpdate ==
    [][(Tick /\ LiveSuns = {}) =>
          \A k \in 1..Len(nodes) :
              IsMovingPlanet(k) =>
                  \A seen \in {SeenBy(k)} :
                      \A peers \in {VAdd(VAdd(VZero,
                                              CalculatePlanetRepulsion(seen, nodes, nodes[k],
                                                                       Len(nodes))),
                                         CalculatePlanetAttraction(seen, nodes, nodes[k],
                                                                   Len(nodes)))} :
                          \A after \in {Integrated(node[nodes[k]],
                                                   VScale(peers, VelocityDamping))} :
                              /\ node'[nodes[k]].velocity = after.velocity
                              /\ node'[nodes[k]].position = after.position
                              /\ node'[nodes[k]].attributes = node[nodes[k]].attributes
                              /\ node'[nodes[k]].swap = NoSwap]_vars

\* The first frame has just moved a planet of a live collection that was left
\* without a sun before it: the planet was pushed by its peer only.
C11_Witness ==
    /\ last.op = "tick"
    /\ now = FrameTime
    /\ LiveSuns = {}
    /\ \E i \in Live :
           /\ ~IsSwapping(node[i])
           /\ node[i].velocity # VZero
           /\ \E j \in Live : j # i

----------------------------------------------------------------------------
(* The compatibility functions.                                            *)

\* C12: for any two nodes of a cluster, calculateAttributeCompatibility gives
\* the same value whichever of the two it is called on.
C12_AttributeCompatibilityCommutes ==
    \A i \in DOMAIN node, j \in DOMAIN node :
        CalculateAttributeCompatibility(node[i], node[j])
            = CalculateAttributeCompatibility(node[j], node[i])

\* A frame has run on a cluster with two nodes of different attributes whose
\* compatibility is neither 0 nor 1.
C12_Witness ==
    /\ last.op = "tick"
    /\ \E i \in Live, j \in Live :
           /\ node[i].attributes # node[j].attributes
           /\ CalculateAttributeCompatibility(node[i], node[j]) # FOne
           /\ CalculateAttributeCompatibility(node[i], node[j]) # FZero

\* Every component of a trait vector lies in [0, 100].
InRange(v) == \A k \in 1..Len(v) : FGe(v[k], FZero) /\ FGe(Num(100), v[k])

\* Every component of a trait vector is a whole number.
IsWhole(v) == \A k \in 1..Len(v) : v[k].e >= 0

\* Every component of a differs from b's by 100.
AllDifferBy100(a, b) == \A k \in 1..Len(a) : FAbs(FSub(a[k], b[k])) = Num(100)

\* 1 - (|p1 - a1| + |p2 - a2| + |p3 - a3|) / 300, in the program's arithmetic.
PreferredFormula(a, p) ==
    FSub(FOne,
         FDiv(FAdd(FAdd(FAdd(FZero, FAbs(FSub(p[1], a[1]))), FAbs(FSub(p[2], a[2]))),
                   FAbs(FSub(p[3], a[3]))),
              Num(300)))

\* C13 as stated: for a body and a sun whose attributes and preferences lie
\* in [0, 100], preferredCompatibility is the formula's value, lies in [0, 1],
\* is 1 exactly when the vectors are equal and 0 exactly when every component
\* differs by 100.
C13_PreferredCompatibilityExact ==
    \A i \in DOMAIN node, j \in DOMAIN node :
        (InRange(node[i].attributes) /\ InRange(node[j].preferences)) =>
            LET c == CalculatePreferredCompatibility(node[i], node[j])
            IN  /\ c = PreferredFormula(node[i].attributes, node[j].preferences)
                /\ FGe(c, FZero) /\ FGe(FOne, c)
                /\ (c = FOne) <=> (node[i].attributes = node[j].preferences)
                /\ (c = FZero) <=> AllDifferBy100(node[i].attributes, node[j].preferences)

\* C13, amended: under the same precondition the value is the formula's, lies
\* in [0, 1], is 1 when the vectors are equal and 0 when every component
\* differs by 100; it is 1 only for equal vectors and 0 only for vectors
\* differing by 100 everywhere when all components are whole numbers.
C13_PreferredCompatibilityRounded ==
    \A i \in DOMAIN node, j \in DOMAIN node :
        (InRange(node[i].attributes) /\ InRange(node[j].preferences)) =>
            LET c == CalculatePreferredCompatibility(node[i], node[j])
                a == node[i].attributes
                p == node[j].preferences
            IN  /\ c = PreferredFormula(a, p)
                /\ FGe(c, FZero) /\ FGe(FOne, c)
                /\ (a = p) => (c = FOne)
                /\ AllDifferBy100(a, p) => (c = FZero)
                /\ (IsWhole(a) /\ IsWhole(p)) =>
                       /\ (c = FOne) => (a = p)
                       /\ (c = FZero) => AllDifferBy100(a, p)

\* A frame has run on a cluster where a planet's attributes differ from the
\* sun's preferences by the finest step only, and the compatibility is 1.
C13_Witness ==
    /\ last.op = "tick"
    /\ \E i \in Live, j \in LiveSuns :
           /\ InRange(node[i].attributes)
           /\ InRange(node[j].preferences)
           /\ node[i].attributes # node[j].preferences
           /\ CalculatePreferredCompatibility(node[i], node[j]) = FOne

\* desiredDistance of calculateSunForce: 1 + (1 - compatibility) * 3.
DesiredDistance(planet, sun) ==
    FAdd(FOne, FMul(FSub(FOne, CalculatePreferredCompatibility(planet, sun)), FThree))

\* The direction from a planet to the sun, normalized.
DirectionToSun(planet, sun) == VNormalize(VSub(sun.position, planet.position))

Dot(a, b) == FAdd(FAdd(FMul(a[1], b[1]), FMul(a[2], b[2])), FMul(a[3], b[3]))

\* The sun force of the 'too close' branch and of the 'too far' branch.
TooCloseForce(planet, sun) ==
    VScale(DirectionToSun(planet, sun),
           FMul(FMul(FNeg(SunRepulsion),
                     FSub(DesiredDistance(planet, sun),
                          VDistanceTo(sun.position, planet.position))),
                CalculatePreferredCompatibility(planet, sun)))

TooFarForce(planet, sun) ==
    VScale(DirectionToSun(planet, sun),
           FAdd(FMul(FMul(FMul(FTwo, SunAttraction),
                          FSub(VDistanceTo(sun.position, planet.position),
                               DesiredDistance(planet, sun))),
                     CalculatePreferredCompatibility(planet, sun)),
                SmallConstant))

\* A planet exactly at its desired distance from the sun.
AtDesiredDistance(planet, sun) ==
    VDistanceTo(sun.position, planet.position) = DesiredDistance(planet, sun)

\* C14: for a planet exactly at its desired distance from the sun the sun
\* force is the 'too far' one and amounts to the nudge alone: the unit
\* direction to the sun times 0.001, of length 0.001 (to within a hundredth
\* of it) and pointing to the sun.  The 'too close' force is the result only
\* when the distance is strictly less than the desired one.
C14_NudgeAtDesiredDistance ==
    \A i \in Live, s \in LiveSuns :
        (i # s) =>
            LET planet == node[i]
                sun == node[s]
                force == CalculateSunForce(planet, sun)
                d == VDistanceTo(sun.position, planet.position)
            IN  /\ AtDesiredDistance(planet, sun) =>
                       /\ force = TooFarForce(planet, sun)
                       /\ force = VScale(DirectionToSun(planet, sun), SmallConstant)
                       /\ FGe(Dec(1, 100000), FAbs(FSub(VLength(force), SmallConstant)))
                       /\ FGt(Dot(force, VSub(sun.position, planet.position)), FZero)
                /\ FLt(d, DesiredDistance(planet, sun)) => force = TooCloseForce(planet, sun)
                /\ ~FLt(d, DesiredDistance(planet, sun)) => force = TooFarForce(planet, sun)

\* A planet at rest exactly at its desired distance, 2.5, from the sun.
C14_Witness ==
    \E i \in Live, s \in LiveSuns :
        /\ i # s
        /\ AtDesiredDistance(node[i], node[s])
        /\ DesiredDistance(node[i], node[s]) = Dec(25, 10)
        /\ node[i].velocity = VZero
        /\ ~IsSwapping(node[i])

\* The live planets, and a planet's distance to the live sun.
LivePlanets == {i \in Live : ~node[i].isSun}

DistanceToSun(i) == VDistanceTo(node[FindSun(node, nodes)].position, node[i].position)

\* No planet is faster than maxVelocity or further from the sun than at the
\* start (distance 3, with a margin of 0.1).
Bounded ==
    \A i \in LivePlanets :
        /\ FGe(MaxVelocity, VLength(node[i].velocity))
        /\ FGe(Dec(31, 10), DistanceToSun(i))

\* Every planet is within 0.05 of distance 1 from the sun and slower than a
\* quarter of maxVelocity.
Settled ==
    \A i \in LivePlanets :
        /\ FGe(Dec(5, 100), FAbs(FSub(DistanceToSun(i), FOne)))
        /\ FGe(Dec(5, 1000), VLength(node[i].velocity))

\* Frames after which the planets have come in from distance 3: at most
\* maxVelocity * velocityDamping = 0.016 per frame, so 125 frames at least.
SettledAfter == 150

\* C15: in a cluster of one sun and two planets whose attributes equal the
\* sun's preferences, the planets' speed never exceeds maxVelocity and they
\* never get further away than they started; the run does come to frames
\* from which on both planets stay within 0.05 of distance 1 from the sun
\* with a speed under a quarter of maxVelocity, and every frame after the
\* first SettledAfter is one of them.
C15_PlanetsSettle ==
    /\ []Bounded
    /\ [](now >= SettledAfter * FrameTime => Settled)
    /\ <>[]Settled

\* The run's frames have all been taken: the planets came in from distance 3
\* and lie settled at distance 1.
C15_Witness ==
    /\ last.op = "tick"
    /\ now >= MaxSettleTicks * FrameTime
    /\ Cardinality(LivePlanets) = 2
    /\ Settled

----------------------------------------------------------------------------
(* Edits.                                                                  *)

\* Node i after an edit of one of its trait vectors: that vector has value
\* at index and is otherwise as before, the velocity has gained 0.02 on every
\* axis, and the rest of the node is as before.
Edited(i, field, index, value) ==
    /\ node'[i][field][index] = value
    /\ Len(node'[i][field]) = Len(node[i][field])
    /\ \A k \in 1..Len(node[i][field]) : k # index => node'[i][field][k] = node[i][field][k]
    /\ node'[i].velocity = Vec(FAdd(node[i].velocity[1], Dec(2, 100)),
                               FAdd(node[i].velocity[2], Dec(2, 100)),
                               FAdd(node[i].velocity[3], Dec(2, 100)))
    /\ node'[i].position = node[i].position
    /\ node'[i].isSun = node[i].isSun
    /\ node'[i].swap = node[i].swap

\* C16: an attribute edit sets attributes[index] of the edited node (the
\* first live node that is not the sun, or the sun when there is no other)
\* to the new value and adds (0.02, 0.02, 0.02) to its velocity, its
\* preferences staying; a preference edit does the same to preferences[index]
\* and the velocity of the current sun, its attributes staying; no other
\* node, live or hidden, changes in any field, and the live list is the same.
C16_EditSetsValueAndImpulse ==
    [][/\ OnAttributeChange =>
              /\ \E index \in EditIndexes, value \in EditValues :
                     Edited(EditableNode, "attributes", index, value)
              /\ node'[EditableNode].preferences = node[EditableNode].preferences
              /\ \A j \in DOMAIN node : j # EditableNode => node'[j] = node[j]
              /\ DOMAIN node' = DOMAIN node
              /\ nodes' = nodes
       /\ OnPreferenceChange =>
              /\ \E index \in EditIndexes, value \in EditValues :
                     Edited(CurrentCentral, "preferences", index, value)
              /\ node'[CurrentCentral].attributes = node[CurrentCentral].attributes
              /\ \A j \in DOMAIN node : j # CurrentCentral => node'[j] = node[j]
              /\ DOMAIN node' = DOMAIN node
              /\ nodes' = nodes]_vars

\* A preference edit has just pushed the sun, after an attribute edit that
\* pushed a planet which a frame then moved.
C16_Witness ==
    /\ last.op = "preferenceChange"
    /\ \E s \in LiveSuns :
           /\ node[s].preferences[1] = Num(150)
           /\ node[s].velocity = Vec(Dec(2, 100), Dec(2, 100), Dec(2, 100))
    /\ \E i \in Live :
           /\ ~node[i].isSun
           /\ node[i].attributes[1] = Num(100)
           /\ node[i].velocity # VZero

\* C17: after any sequence of addNode, attribute edits and preference edits
\* (and of the other handlers and frames), every attribute and every
\* preference of every live node lies in [0, 100].  The code does not keep
\* this: see C17_EditOutOfRange.
C17_TraitsInRange ==
    \A i \in Live : InRange(node[i].attributes) /\ InRange(node[i].preferences)

\* The state C17 excludes, as the code reaches it: an attribute edit has
\* just stored the 150 typed into its input.
C17_EditOutOfRange ==
    /\ last.op = "attributeChange"
    /\ \E i \in Live : node[i].attributes[1] = Num(150)

----------------------------------------------------------------------------
(* Frames.                                                                 *)

\* The progress handleSwapAnimation uses at time t: (t - startTime) /
\* duration, cut to 1.
ProgressAt(swap, t) ==
    IF FGe(Dec(t - swap.startTime, swap.duration), FOne)
    THEN FOne
    ELSE Dec(t - swap.startTime, swap.duration)

\* Where a swap puts its node at time t: a function of the swap record and
\* of t alone.
SwapPlace(swap, t) ==
    Vec(Interpolated(swap.start[1], swap.end[1], ProgressAt(swap, t)),
        Interpolated(swap.start[2], swap.end[2], ProgressAt(swap, t)),
        Interpolated(swap.start[3], swap.end[3], ProgressAt(swap, t)))

\* C18: a node whose swap is set when a frame starts does not integrate
\* forces in that frame.  Its new position is a function of swap.start,
\* swap.end, swap.startTime, swap.duration and the frame's time only: not of
\* the other nodes, not of its velocity, not of the position it had (which a
\* drag may have written since the frame before).  Its velocity is left as
\* it was, or set to zero if the swap completes in this frame.
C18_SwapIgnoresForces ==
    [][Tick =>
          \A i \in Live :
              IsSwapping(node[i]) =>
                  /\ node'[i].position = SwapPlace(node[i].swap, now')
                  /\ node'[i].velocity = IF ProgressAt(node[i].swap, now') = FOne
                                         THEN VZero
                                         ELSE node[i].velocity
                  /\ node'[i].swap \in {node[i].swap, NoSwap}]_vars

\* A frame has just put a swapping node on its path: a node that carries the
\* velocity an edit gave it before the handoff and that the pointer is
\* dragging, away from the place a drag puts it at.
C18_Witness ==
    /\ last.op = "tick"
    /\ ops = MaxSwapOps
    /\ \E i \in Live :
           /\ IsSwapping(node[i])
           /\ draggingNode = i
           /\ node[i].velocity # VZero
           /\ node[i].position = SwapPlace(node[i].swap, now)
           /\ node[i].position \notin DragPositions
           /\ node[i].swap.start \notin DragPositions

\* The sun force on node i as the map nd has it, zero without a live sun.
SunForceIn(nd, i) ==
    IF FindSun(nd, nodes) # 0 THEN CalculateSunForce(nd[i], nd[FindSun(nd, nodes)]) ELSE VZero

\* C19: for a live node that is neither the sun nor swapping, one update
\* computes totalForce = (sunForce + peerRepulsion + peerAttraction) *
\* velocityDamping, adds it to the velocity, rescales the velocity to length
\* maxVelocity if it is longer, multiplies it by velocityDamping, and adds it
\* to the position: the damping enters twice, once on the force and once
\* after the cap.
C19_UpdateIntegrates ==
    [][Tick =>
          \A k \in 1..Len(nodes) :
              IsMovingPlanet(k) =>
                  \A seen \in {SeenBy(k)} :
                      \A summed \in {VAdd(VAdd(VAdd(VZero, SunForceIn(seen, nodes[k])),
                                               CalculatePlanetRepulsion(seen, nodes, nodes[k],
                                                                        Len(nodes))),
                                          CalculatePlanetAttraction(seen, nodes, nodes[k],
                                                                    Len(nodes)))} :
                          \A after \in {Integrated(node[nodes[k]],
                                                   VScale(summed, VelocityDamping))} :
                              /\ node'[nodes[k]].velocity = after.velocity
                              /\ node'[nodes[k]].position = after.position]_vars

\* A frame has just moved two planets around a live sun: one whose velocity
\* was cut to maxVelocity and then damped (its speed is about 0.016), and
\* one that a small force moved without the cap.
C19_Witness ==
    /\ last.op = "tick"
    /\ LiveSuns # {}
    /\ \E i \in LivePlanets, j \in LivePlanets :
           /\ ~IsSwapping(node[i]) /\ ~IsSwapping(node[j])
           /\ FGe(VLength(node[i].velocity), Dec(15, 1000))
           /\ FGt(VLength(node[j].velocity), FZero)
           /\ FLt(VLength(node[j].velocity), Dec(15, 1000))

\* The node map with the new state of the nodes before index k of the live
\* list and the old state of all the others.
NewBefore(k) ==
    [i \in DOMAIN node |->
        IF \E j \in 1..(k - 1) : nodes[j] = i THEN node'[i] ELSE node[i]]

\* What a frame at time t would leave if every node were updated against
\* the state the frame started from.
SnapshotUpdate(t) ==
    [i \in DOMAIN node |-> IF i \in Live THEN UpdateNode(node, nodes, i, t) ELSE node[i]]

\* C20: a frame updates the live nodes one at a time, in list order, on the
\* shared list: the new state of the k-th node is its update computed from
\* the new state of the nodes before it in the list and the old state of
\* the nodes after it; nodes outside the live list are untouched.
C20_UpdateIsSequential ==
    [][Tick =>
          /\ \A k \in 1..Len(nodes) :
                 \A seen \in {NewBefore(k)} :
                     node'[nodes[k]] = UpdateNode(seen, nodes, nodes[k], now')
          /\ \A i \in DOMAIN node : i \notin Live => node'[i] = node[i]]_vars

\* After a frame, a state in which the order matters for the next one: a frame
\* is due and the update from a snapshot would move some live node elsewhere
\* than the update in place does.
C20_Witness ==
    /\ last.op = "tick"
    /\ now < MaxTicks * FrameTime
    /\ \E i \in Live :
           SnapshotUpdate(now + FrameTime)[i].position
               # ClusterUpdate(node, nodes, Len(nodes), now + FrameTime)[i].position

----------------------------------------------------------------------------
(* Handoffs.                                                                *)

FramesAhead == 3

\* Where the frame at time t puts node n, given its swap.
PlaceAt(n, t) == HandleSwapAnimation(n, t).position

\* What onSetAsSun does to a participant i that is already swapping: the
\* node stays where it is, and its swap is replaced by one that starts
\* there, at the time of the call, with the full duration.
Overwritten(i) ==
    /\ node'[i].position = node[i].position
    /\ node'[i].swap.start = node[i].position
    /\ node'[i].swap.startTime = now
    /\ node'[i].swap.duration = 5000
    /\ SwapProgress(node'[i].swap, now) = FZero

\* C22, as the specification states it: an onSetAsSun call that acts on a
\* node whose swap is set replaces that swap by one from the node's current
\* position with startTime = now and duration 5000; no frame of the new swap
\* puts the node at the end point of the replaced one; every node that is
\* not one of the two keeps its swap and all else.
C22_OverwrittenEndNeverReached ==
    [][(OnSetAsSun /\ SetAsSunActs)
          => /\ \A i \in {NewCentral, OldCentral} :
                   IsSwapping(node[i])
                      => /\ Overwritten(i)
                         /\ \A k \in 1..FramesAhead :
                               PlaceAt(node'[i], now + k * FrameTime) # node[i].swap.end
             /\ \A j \in DOMAIN node \ {NewCentral, OldCentral} :
                   node'[j] = node[j]]_vars

\* C22, as the code has it: the same, the end point of the replaced swap
\* being missed whenever the new swap ends elsewhere.  The old sun's new swap
\* ends where the new sun is at the call, which is the end point of the old
\* sun's replaced swap when the call takes back a handoff no frame has
\* animated yet.
C22_HandoffOverwritesSwap ==
    [][(OnSetAsSun /\ SetAsSunActs)
          => /\ \A i \in {NewCentral, OldCentral} :
                   IsSwapping(node[i])
                      => /\ Overwritten(i)
                         /\ node'[i].swap.end # node[i].swap.end
                               => \A k \in 1..FramesAhead :
                                     PlaceAt(node'[i], now + k * FrameTime)
                                         # node[i].swap.end
             /\ \A j \in DOMAIN node \ {NewCentral, OldCentral} :
                   node'[j] = node[j]]_vars

\* onSetAsSun has just replaced the swap of a node that a frame had carried
\* part of the way, while a third node goes on with the swap of the earlier
\* handoff.
C22_Witness ==
    /\ last.op = "setAsSun"
    /\ last.acted
    /\ now > 0
    /\ \E i, j \in Live :
          /\ i # j
          /\ IsSwapping(node[i])
          /\ node[i].swap.startTime = now
          /\ ~node[i].isSun
          /\ node[i].swap.start # VZero
          /\ node[i].swap.end # VZero
          /\ IsSwapping(node[j])
          /\ node[j].swap.startTime < now
          /\ node[j].position # node[j].swap.start

\* The handoff that the last handler call made, from old to new, in a
\* cluster of three with c the node that took no part.
JustHandedOver(new, old, c) ==
    /\ last.op = "setAsSun"
    /\ last.acted
    /\ Len(nodes) = 3
    /\ Live = {new, old, c}
    /\ new = selectedNode
    /\ new # old /\ old # c /\ new # c
    /\ node[old].swap = [start |-> node[old].position, end |-> node[new].position,
                         startTime |-> now, duration |-> 5000]

\* C23: in the first frame after an onSetAsSun call that acted, a planet
\* that is not swapping integrates the sun force towards the new sun, taken
\* at the place the new sun has at the planet's turn and from the new sun's
\* preferences, plus the peer repulsion and the peer attraction of the old
\* sun alone: the new sun is no peer, the old sun is one although its swap
\* is still set.
C23_RolesCountAtOnce ==
    [][Tick =>
          \A k \in 1..Len(nodes) : \A new, old \in Live :
              (IsMovingPlanet(k) /\ JustHandedOver(new, old, nodes[k])) =>
                  \A seen \in {NewBefore(k)} :
                      \A self \in {seen[nodes[k]]} :
                          \A summed \in {VAdd(VAdd(VAdd(VZero,
                                                        CalculateSunForce(self, seen[new])),
                                                   VAdd(VZero, RepulsionTerm(self, seen[old]))),
                                              VAdd(VZero, AttractionTerm(self, seen[old])))} :
                              \A after \in {Integrated(node[nodes[k]],
                                                       VScale(summed, VelocityDamping))} :
                                  /\ node[new].isSun
                                  /\ ~node[old].isSun
                                  /\ IsSwapping(node'[old])
                                  /\ IsSwapping(node'[new])
                                  /\ seen[new].preferences = node[new].preferences
                                  /\ node'[nodes[k]].velocity = after.velocity
                                  /\ node'[nodes[k]].position = after.position]_vars

\* The first frame after a handoff has just moved the planet that took no
\* part in it, while the new sun and the old sun are both part of the way
\* along their swaps, the new sun away from the origin still.
C23_Witness ==
    /\ last.op = "tick"
    /\ \E new, old, c \in Live :
          /\ node[new].isSun
          /\ IsSwapping(node[new])
          /\ node[new].swap.startTime + FrameTime = now
          /\ node[new].position # VZero
          /\ ~node[old].isSun
          /\ IsSwapping(node[old])
          /\ node[old].swap.startTime + FrameTime = now
          /\ node[old].swap.end = node[new].swap.start
          /\ ~node[c].isSun
          /\ ~IsSwapping(node[c])
          /\ node[c].velocity # VZero

----------------------------------------------------------------------------
(* The peer forces.                                                         *)

\* distance(b, o) of two nodes.
Distance(b, o) == VDistanceTo(node[b].position, node[o].position)

\* repulsion * (threshold - distance) * (1 - compatibility) + smallConstant
RepulsionMagnitude(b, o) ==
    FAdd(FMul(FMul(PlanetRepulsion, FSub(PlanetRepulsionThreshold, Distance(b, o))),
              FSub(FOne, CalculateAttributeCompatibility(node[b], node[o]))),
         SmallConstant)

\* The contribution of o to the repulsion on b: the magnitude along
\* normalize(b.position - o.position).
RepulsionFrom(b, o) ==
    VScale(VNormalize(VSub(node[b].position, node[o].position)), RepulsionMagnitude(b, o))

\* o is live, is not b, is not the sun and is nearer to b than the threshold.
Repels(b, o) ==
    /\ o \in Live
    /\ o # b
    /\ ~node[o].isSun
    /\ FLt(Distance(b, o), PlanetRepulsionThreshold)

\* The contributions of the first k live nodes that repel b, added up in
\* list order.
RECURSIVE RepulsionSum(_, _)
RepulsionSum(b, k) ==
    IF k = 0 THEN VZero
    ELSE IF Repels(b, nodes[k])
         THEN VAdd(RepulsionSum(b, k - 1), RepulsionFrom(b, nodes[k]))
         ELSE RepulsionSum(b, k - 1)

\* C24: the peer repulsion on a live planet b is the sum of the
\* contributions of the live nodes o other than b that are not the sun and
\* are strictly nearer than the threshold; each contribution has the
\* magnitude repulsion * (threshold - distance) * (1 - compatibility) +
\* smallConstant, which is positive, and points from o to b; a node at or
\* beyond the threshold contributes nothing, and neither does the sun or a
\* hidden node.
C24_RepulsionWithinThreshold ==
    \A b \in LivePlanets :
        /\ CalculatePlanetRepulsion(node, nodes, b, Len(nodes)) = RepulsionSum(b, Len(nodes))
        /\ \A o \in Live \ {b} :
              /\ Repels(b, o)
                    => /\ RepulsionTerm(node[b], node[o]) = RepulsionFrom(b, o)
                       /\ FGt(RepulsionMagnitude(b, o), FZero)
                       /\ node[b].position # node[o].position
                             => FGt(Dot(RepulsionFrom(b, o),
                                        VSub(node[b].position, node[o].position)), FZero)
              /\ (~node[o].isSun /\ ~Repels(b, o))
                    => RepulsionTerm(node[b], node[o]) = VZero
        /\ \A o \in (Live \cup Hidden) \ {b} :
              (node[o].isSun \/ o \notin Live)
                 => RepulsionSum(b, Len(nodes)) =
                       CalculatePlanetRepulsion([node EXCEPT ![o].position = node[b].position],
                                                nodes, b, Len(nodes))

\* A frame has just run on a cluster with a live sun where a planet has one
\* peer beyond the threshold, which does not push it, and another within the
\* threshold, which does; the repulsion it feels is that of the second alone.
C24_Witness ==
    \E b, o, p \in LivePlanets :
        /\ last.op = "tick"
        /\ b # o /\ b # p /\ o # p
        /\ ~FLt(Distance(b, o), PlanetRepulsionThreshold)
        /\ RepulsionTerm(node[b], node[o]) = VZero
        /\ FLt(Distance(b, p), PlanetRepulsionThreshold)
        /\ CalculatePlanetRepulsion(node, nodes, b, Len(nodes)) = RepulsionFrom(b, p)
        /\ RepulsionFrom(b, p) # VZero
        /\ LiveSuns # {}

----------------------------------------------------------------------------
(* The end of a swap.                                                       *)

\* A live node's swap is set.
SwapPending(i) == i \in Live /\ IsSwapping(node[i])

\* The frame before this one completed the swap of live node i.
JustArrived(i) ==
    /\ last.op = "tick"
    /\ i \in DOMAIN last.done
    /\ i \in Live
    /\ ~IsSwapping(node[i])

\* C25: with the render loop running, the swap of every live node is
\* cleared in the end (setAsSun calls are finitely many; a node that is
\* removed is no longer updated), and it is cleared by the first frame at a
\* time >= startTime + duration and by no earlier one.  In the frame after,
\* the node that gave up the sun role integrates forces like any planet, and
\* the node that took it stays where the swap left it, at swap.end.
C25_SwapEnds ==
    /\ \A i \in 1..MaxNodes :
          (i \in DOMAIN node /\ SwapPending(i)) ~> (i \in DOMAIN node /\ ~SwapPending(i))
    /\ [][EndTick =>
             \A k \in 1..Len(nodes) : \A i \in {nodes[k]} :
                 /\ IsSwapping(node[i])
                       => (IsSwapping(node'[i])
                              <=> now' < node[i].swap.startTime + node[i].swap.duration)
                 /\ (JustArrived(i) /\ node[i].isSun)
                       => /\ node'[i].position = last.done[i].end
                          /\ node'[i].position = node[i].position
                          /\ node'[i].velocity = VZero
                 /\ (JustArrived(i) /\ ~node[i].isSun)
                       => \A seen \in {NewBefore(k)} :
                             \A summed \in {VAdd(VAdd(VAdd(VZero, SunForceIn(seen, i)),
                                                      CalculatePlanetRepulsion(seen, nodes, i,
                                                                               Len(nodes))),
                                                 CalculatePlanetAttraction(seen, nodes, i,
                                                                           Len(nodes)))} :
                                 \A after \in {Integrated(node[i],
                                                          VScale(summed, VelocityDamping))} :
                                     /\ node'[i].velocity = after.velocity
                                     /\ node'[i].position = after.position]_vars

\* Both swaps of a handoff are over, and the frame after the one that
\* cleared them has run: the new sun is at the origin at rest, and the old
\* sun has been moved by the forces, away from where its swap left it.
C25_Witness ==
    /\ last.op = "tick"
    /\ \E new, old \in Live :
          /\ node[new].isSun
          /\ ~node[old].isSun
          /\ ~IsSwapping(node[new])
          /\ ~IsSwapping(node[old])
          /\ DOMAIN last.done = {}
          /\ node[new].position = VZero
          /\ node[new].velocity = VZero
          /\ new # 1
          /\ node[old].velocity # VZero

----------------------------------------------------------------------------
(* Nodes at the same place.                                                 *)

\* x is a Number other than NaN, and v a vector of three of them.
IsNumber(x) == x.m \in Int /\ x.e \in Int /\ (x.m = 0 => x.e = 0)

IsDefined(v) == \A k \in 1..3 : IsNumber(v[k])

----------------------------------------------------------------------------
(* What a frame may change.                                                 *)

\* C27: a frame leaves the live list as it is (same nodes, same order), and
\* the hidden list, the selection and the drag too; it creates no node; of a
\* live node it changes at most position, velocity and swap, the swap only
\* from set to cleared; isSun, attributes and preferences stay; a hidden
\* node is not touched at all.
C27_FrameChangesMotionOnly ==
    [][last'.op = "tick"
          => /\ nodes' = nodes
             /\ hiddenNodes' = hiddenNodes
             /\ selectedNode' = selectedNode
             /\ draggingNode' = draggingNode
             /\ newNodeCounter' = newNodeCounter
             /\ DOMAIN node' = DOMAIN node
             /\ \A i \in DOMAIN node :
                   /\ node'[i].isSun = node[i].isSun
                   /\ node'[i].attributes = node[i].attributes
                   /\ node'[i].preferences = node[i].preferences
                   /\ \/ node'[i].swap = node[i].swap
                      \/ IsSwapping(node[i]) /\ node'[i].swap = NoSwap
                   /\ i \notin Live => node'[i] = node[i]
                   /\ DOMAIN node'[i] = DOMAIN node[i]]_vars

\* A frame has just cleared the swaps of a handoff and moved both nodes to
\* their end points, on a cluster where an attribute had been edited: the
\* edited value and the roles are the ones the handlers left.
C27_Witness ==
    /\ last.op = "tick"
    /\ DOMAIN last.done # {}
    /\ \A i \in DOMAIN last.done :
          /\ ~IsSwapping(node[i])
          /\ node[i].position # last.done[i].start
    /\ \E i \in Live : node[i].attributes[1] = Num(150)
    /\ Cardinality(LiveSuns) = 1
    /\ ~node[1].isSun

----------------------------------------------------------------------------
(* The speed limit.                                                         *)

\* maxVelocity * velocityDamping
SpeedLimit == FMul(MaxVelocity, VelocityDamping)

\* The relative error the roundings of one update can add up to: a few
\* units in the last place of a Number.
Rounding == [m |-> 1, e |-> 2 - MantissaBits]

\* The speed limit, and the step it allows from position p, with room for
\* the rounding of the cap (normalize, two products) and of the sum that
\* moves the position.
SpeedLimitRounded == FMul(SpeedLimit, FAdd(FOne, Rounding))

StepLimitRounded(p) == FAdd(SpeedLimitRounded, FMul(Rounding, VLength(p)))

\* C28, as the specification states it: after a frame, a live node that is
\* neither the sun nor swapping has a speed of at most maxVelocity *
\* velocityDamping and has moved by at most that much, whatever its velocity
\* was before.
C28_SpeedWithinLimit ==
    [][last'.op = "tick"
          => \A k \in 1..Len(nodes) : \A i \in {nodes[k]} :
                 IsMovingPlanet(k)
                    => /\ FGe(SpeedLimit, VLength(node'[i].velocity))
                       /\ FGe(SpeedLimit,
                              VLength(VSub(node'[i].position, node[i].position)))]_vars

\* C28, as the code has it: the same bounds up to rounding.  The cap rescales
\* the velocity to length maxVelocity by normalize() and a product, each
\* rounded, so the length that results can exceed maxVelocity by a unit in
\* the last place, and the position is moved by a rounded sum.
C28_SpeedWithinRoundedLimit ==
    [][last'.op = "tick"
          => \A k \in 1..Len(nodes) : \A i \in {nodes[k]} :
                 IsMovingPlanet(k)
                    => /\ FGe(SpeedLimitRounded, VLength(node'[i].velocity))
                       /\ FGe(StepLimitRounded(node[i].position),
                              VLength(VSub(node'[i].position, node[i].position)))
                       /\ node'[i].position = VAdd(node[i].position, node'[i].velocity)]_vars

\* A frame has just moved a planet after three handler calls or more, edits
\* among them: its speed is at the limit, to within rounding.
C28_Witness ==
    /\ last.op = "tick"
    /\ ops >= 3
    /\ \E i \in LivePlanets :
          /\ ~IsSwapping(node[i])
          /\ node[i].attributes[1] # Num(0)
          /\ FGe(SpeedLimitRounded, VLength(node[i].velocity))
          /\ FGe(VLength(node[i].velocity), FMul(SpeedLimit, Dec(99, 100)))

----------------------------------------------------------------------------
(* The peer attraction.                                                     *)

\* attractionConstant * compatibility - 0.001
ForceMagnitude(compatibility) == FSub(FMul(SmallConstant, compatibility), SmallConstant)

\* The Number just below 1.
BelowOne == FSub(FOne, [m |-> 1, e |-> 0 - MantissaBits])

----------------------------------------------------------------------------
(* The live list and the hidden list.                                       *)

\* No entry of the sequence occurs in it twice.
NoDuplicates(seq) == \A j, k \in 1..Len(seq) : seq[j] = seq[k] => j = k

\* C30, as the specification states it: after any sequence of addNode and
\* removeNode calls, no node is both live and hidden, no node is in the
\* hidden list more than once, and every node ever created is in exactly one
\* of the two lists.
C30_LiveAndHiddenPartition ==
    /\ Live \cap Hidden = {}
    /\ NoDuplicates(hiddenNodes)
    /\ NoDuplicates(nodes)
    /\ Live \cup Hidden = DOMAIN node

\* removeNode has been called twice on the same selected node: the node is
\* in the hidden list twice, and not in the live list.
C30_HiddenTwice ==
    /\ last.op = "removeNode"
    /\ last.acted
    /\ selectedNode \notin Live
    /\ \E j, k \in 1..Len(hiddenNodes) :
          /\ j # k
          /\ hiddenNodes[j] = selectedNode
          /\ hiddenNodes[k] = selectedNode

====
